---- MODULE Spec2Model ----
(***************************************************************************)
(* A model of the producer side of the nodejs-kafka integration layer:     *)
(* TransactionManager (src/src/common/transactionManager.ts) and           *)
(* MessageProducer (src/src/producer/producer.ts).                         *)
(*                                                                         *)
(* Node runs the code on one event loop: an async function runs without    *)
(* interruption up to its next await, so every action below is the run of  *)
(* one call from one suspension point to the next.                         *)
(***************************************************************************)
EXTENDS Integers, Sequences, FiniteSets, TLC

\* ------------------------------------------------------------------------
\* Bounds of the model
\* ------------------------------------------------------------------------
\* longest message list handed to sendInTransaction / the sender closure
MaxMsgs == 3
\* longest message list handed to sendInTransaction by concurrent callers
MaxConcurrentMsgs == 1
\* most sender calls one executeTransaction operation makes
MaxSenderCalls == 2
\* longest message list an operation hands to its sender
MaxSenderMsgs == 2

\* the callers of one TransactionManager whose calls may overlap
Tasks == {"a", "b"}
\* the caller of the specification in which calls do not overlap
Caller == "a"
Topics == {"topic-1", "topic-2"}

\* the value of this.activeTransaction when no transaction is active
NULL == "<null>"
\* ids a caller passes to beginTransaction ("" stands for an omitted id)
CallerIds == {"", "A", "B"}
\* ids generateTransactionId can return
GenIds == {"txn_1", "txn_2"}

\* JavaScript truthiness of a string | null
Truthy(x) == x # NULL /\ x # ""

\* ------------------------------------------------------------------------
\* Values
\* ------------------------------------------------------------------------
\* thrown values; isError is `instanceof Error`
Err(name, id) == [name |-> name, id |-> id, isError |-> TRUE]
NoError == [name |-> "", id |-> NULL, isError |-> FALSE]
AlreadyActive(id) == Err("Transaction <id> is already active", id)
NoActiveTransaction == Err("No active transaction", NULL)
NoActiveToCommit == Err("No active transaction to commit", NULL)
NoActiveToRollback == Err("No active transaction to rollback", NULL)
FailedToStart == Err("Failed to start transaction", NULL)
UnknownError == Err("Unknown error", NULL)
\* what the broker client rejects with
BrokerTransactionError == Err("broker: transaction() failed", NULL)
BrokerCommitError == Err("broker: commit() failed", NULL)
BrokerAbortError == Err("broker: abort() failed", NULL)
BrokerSendError == Err("broker: send() failed", NULL)
\* what an operation passed to executeTransaction throws
OperationError == Err("Operation failed", NULL)
OperationNonError == [name |-> "a thrown non-Error value", id |-> NULL, isError |-> FALSE]

\* a message list: message i carries value i, so a list has no duplicates
MsgList(topics) == [i \in 1..Len(topics) |-> [topic |-> topics[i], value |-> i]]
MsgListsTo(n) == {MsgList(tp) : tp \in UNION {[1..k -> Topics] : k \in 0..n}}
MsgLists == MsgListsTo(MaxMsgs)

\* a call the broker client received
BrokerCall(call, topic, messages) == [call |-> call, topic |-> topic, messages |-> messages]
TransactionCall == BrokerCall("transaction", "", <<>>)
CommitCall == BrokerCall("commit", "", <<>>)
AbortCall == BrokerCall("abort", "", <<>>)

\* how a call settled. thrown: the kind of value a rejection carries;
\* txnId, success, messageCount, error: the TransactionResult or the id returned;
\* after: activeTransaction when the call settled; replaced: the value of
\* activeTransaction that a successful begin assigned over.
Pending == [status |-> "pending", thrown |-> "none", error |-> NoError, txnId |-> NULL,
            success |-> FALSE, messageCount |-> 0, result |-> "", after |-> NULL,
            replaced |-> NULL]
Resolved == [Pending EXCEPT !.status = "resolved"]
Rejected(e) ==
  [Pending EXCEPT !.status = "rejected", !.error = e,
                  !.thrown = IF e.isError THEN "Error" ELSE "value"]

\* the operation handed to executeTransaction: what it does next is to await
\* sender(messages), to return OperationResult or to throw
OperationResult == "operation-result"
Moves == [kind : {"sender"}, messages : MsgListsTo(MaxSenderMsgs)]
           \cup [kind : {"return", "throwError", "throwNonError"}, messages : {<<>>}]

\* the frame of one async call. before: activeTransaction as the call was
\* made; sender: the lengths of the lists of the sender calls completed;
\* error, caught: what the catch block of executeTransaction caught, and from
\* which await
Frame(op, pc, before) ==
  [op |-> op, pc |-> pc, before |-> before, txnId |-> NULL, messages |-> <<>>,
   groups |-> <<>>, sender |-> <<>>, messageCount |-> 0, error |-> NoError,
   caught |-> "", out |-> Pending]
Settled(f, out) == [f EXCEPT !.pc = "settled", !.out = out]

\* what one run of a call produces: its frame, the broker calls it issued and
\* the new value of this.activeTransaction
Step(f, calls, active) == [frame |-> f, calls |-> calls, active |-> active]

\* ------------------------------------------------------------------------
\* TransactionManager: each operator is the run of one method from one
\* suspension point to the next. active is this.activeTransaction when the
\* run starts; ok is whether the awaited broker call was acknowledged.
\* ------------------------------------------------------------------------

\* groupMessagesByTopic: a Map keeps its keys in insertion order
RECURSIVE GroupInto(_, _)
GroupInto(messages, grouped) ==
  IF messages = <<>> THEN grouped
  ELSE LET message == Head(messages)
           at == {i \in 1..Len(grouped) : grouped[i].topic = message.topic}
       IN IF at = {}
          THEN GroupInto(Tail(messages),
                         Append(grouped, [topic |-> message.topic, messages |-> <<message>>]))
          ELSE GroupInto(Tail(messages),
                         [grouped EXCEPT ![CHOOSE i \in at : TRUE].messages = Append(@, message)])

\* a grouping that opens a new group whenever the topic changes
RECURSIVE GroupRuns(_, _)
GroupRuns(messages, grouped) ==
  IF messages = <<>> THEN grouped
  ELSE LET message == Head(messages)
       IN IF grouped # <<>> /\ grouped[Len(grouped)].topic = message.topic
          THEN GroupRuns(Tail(messages),
                         [grouped EXCEPT ![Len(grouped)].messages = Append(@, message)])
          ELSE GroupRuns(Tail(messages),
                         Append(grouped, [topic |-> message.topic, messages |-> <<message>>]))

groupMessagesByTopic_Runs(messages) == GroupRuns(messages, <<>>)

groupMessagesByTopic(messages) == GroupInto(messages, <<>>)

\* producer.send({topic, messages: topicMessages.map(...)}) for one group
SendCallOf(group) == BrokerCall("send", group.topic, group.messages)

\* beginTransaction without its guard
BeginGuard_Never(active) == FALSE

\* `if (this.activeTransaction)` of beginTransaction
BeginGuard(active) == Truthy(active)

\* beginTransaction up to `await this.producer.transaction()`
BeginEnter(active, transactionId, generated) ==
  IF BeginGuard(active)
  THEN Step(Settled(Frame("begin", "", active), Rejected(AlreadyActive(active))), <<>>, active)
  ELSE Step([Frame("begin", "await transaction", active) EXCEPT
               !.txnId = IF Truthy(transactionId) THEN transactionId ELSE generated],
            <<TransactionCall>>, active)

\* beginTransaction after `await this.producer.transaction()`
BeginAfterTransaction(f, active, ok) ==
  IF ok
  THEN Step(Settled(f, [Resolved EXCEPT !.txnId = f.txnId, !.replaced = active]), <<>>, f.txnId)
  ELSE Step(Settled(f, Rejected(FailedToStart)), <<>>, active)

\* sendInTransaction testing for the empty list before the active transaction
SendEnter_EmptyFirst(active, messages) ==
  IF Len(messages) = 0
  THEN Step(Settled([Frame("send", "", active) EXCEPT !.messages = messages], Resolved),
            <<>>, active)
  ELSE IF ~Truthy(active)
  THEN Step(Settled([Frame("send", "", active) EXCEPT !.messages = messages],
                    Rejected(NoActiveTransaction)), <<>>, active)
  ELSE LET grouped == groupMessagesByTopic(messages)
       IN Step([Frame("send", "await send", active) EXCEPT
                  !.messages = messages, !.groups = Tail(grouped)],
               <<SendCallOf(Head(grouped))>>, active)

\* sendInTransaction up to the first `await this.producer.send(...)`
SendEnter(active, messages) ==
  IF ~Truthy(active)
  THEN Step(Settled([Frame("send", "", active) EXCEPT !.messages = messages],
                    Rejected(NoActiveTransaction)), <<>>, active)
  ELSE IF Len(messages) = 0
  THEN Step(Settled([Frame("send", "", active) EXCEPT !.messages = messages], Resolved),
            <<>>, active)
  ELSE LET grouped == groupMessagesByTopic(messages)
       IN Step([Frame("send", "await send", active) EXCEPT
                  !.messages = messages, !.groups = Tail(grouped)],
               <<SendCallOf(Head(grouped))>>, active)

\* sendInTransaction after one `await this.producer.send(...)`
SendAfterSend(f, active, ok) ==
  IF ~ok THEN Step(Settled(f, Rejected(BrokerSendError)), <<>>, active)
  ELSE IF f.groups = <<>> THEN Step(Settled(f, Resolved), <<>>, active)
  ELSE Step([f EXCEPT !.groups = Tail(@)], <<SendCallOf(Head(f.groups))>>, active)

\* a catch block of commitTransaction that leaves the transaction active
CommitFailed_StaysActive(f, active, e) == Step(Settled(f, Rejected(e)), <<>>, active)

\* the catch block of commitTransaction
CommitFailed(f, active, e) == Step(Settled(f, Rejected(e)), <<>>, NULL)

\* commitTransaction up to `await this.producer.transaction()`
CommitEnter(active) ==
  IF ~Truthy(active)
  THEN Step(Settled(Frame("commit", "", active), Rejected(NoActiveToCommit)), <<>>, active)
  ELSE Step([Frame("commit", "await transaction", active) EXCEPT !.txnId = active],
            <<TransactionCall>>, active)

\* commitTransaction after `await this.producer.transaction()`
CommitAfterTransaction(f, active, ok) ==
  IF ok THEN Step([f EXCEPT !.pc = "await commit"], <<CommitCall>>, active)
  ELSE CommitFailed(f, active, BrokerTransactionError)

\* commitTransaction after `await transaction.commit()`
CommitAfterCommit(f, active, ok) ==
  IF ok
  THEN Step(Settled(f, [Resolved EXCEPT !.txnId = f.txnId, !.success = TRUE,
                                        !.messageCount = 0]), <<>>, NULL)
  ELSE CommitFailed(f, active, BrokerCommitError)

\* the catch block of rollbackTransaction
RollbackFailed(f, active, e) == Step(Settled(f, Rejected(e)), <<>>, NULL)

\* rollbackTransaction up to `await this.producer.transaction()`
RollbackEnter(active) ==
  IF ~Truthy(active)
  THEN Step(Settled(Frame("rollback", "", active), Rejected(NoActiveToRollback)), <<>>, active)
  ELSE Step([Frame("rollback", "await transaction", active) EXCEPT !.txnId = active],
            <<TransactionCall>>, active)

\* rollbackTransaction after `await this.producer.transaction()`
RollbackAfterTransaction(f, active, ok) ==
  IF ok THEN Step([f EXCEPT !.pc = "await abort"], <<AbortCall>>, active)
  ELSE RollbackFailed(f, active, BrokerTransactionError)

\* rollbackTransaction after `await transaction.abort()`
RollbackAfterAbort(f, active, ok) ==
  IF ok THEN Step(Settled(f, Resolved), <<>>, NULL)
  ELSE RollbackFailed(f, active, BrokerAbortError)

\* executeTransaction: a run gives the frame of executeTransaction and, unless
\* it settled, the call it now awaits
Awaiting(parent, child) == [parent |-> parent, hasChild |-> TRUE, child |-> child]
Finished(parent, active) ==
  [parent |-> parent, hasChild |-> FALSE, child |-> Step(parent, <<>>, active)]

\* executeTransaction up to `await this.beginTransaction(transactionId)`
ExecuteEnter(active, generated) ==
  Awaiting([Frame("execute", "await begin", active) EXCEPT !.txnId = generated],
           BeginEnter(active, generated, generated))

\* the catch block of executeTransaction up to `await this.rollbackTransaction()`
ExecuteCatch(p, e, active, from) ==
  Awaiting([p EXCEPT !.pc = "await rollback", !.error = e, !.caught = from],
           RollbackEnter(active))

\* the promise operation(sender) returned settles
OperationSettles(p, out, active) ==
  Awaiting([p EXCEPT !.pc = "await operation"],
           Step(Settled(Frame("operation", "", active), out), <<>>, active))

\* operation(sender) up to its next await: a sender call, whose first
\* statement is `await this.sendInTransaction(messages)`, or its end
RunOperation(p, active, move) ==
  IF move.kind = "sender"
  THEN Awaiting([p EXCEPT !.pc = "await sender"], SendEnter(active, move.messages))
  ELSE OperationSettles(p,
         CASE move.kind = "return" -> [Resolved EXCEPT !.result = OperationResult]
           [] move.kind = "throwError" -> Rejected(OperationError)
           [] OTHER -> Rejected(OperationNonError),
         active)

\* executeTransaction after `await this.beginTransaction(transactionId)`
ExecuteAfterBegin(p, c, active, move) ==
  IF c.out.status = "resolved" THEN RunOperation(p, active, move)
  ELSE ExecuteCatch(p, c.out.error, active, "begin")

\* a sender that counts its calls instead of its messages
CountMessages_Calls(messageCount, messages) == messageCount + 1

\* `messageCount += messages.length` of sender
CountMessages(messageCount, messages) == messageCount + Len(messages)

\* sender after `await this.sendInTransaction(messages)`, and the operation on
\* from there; an operation lets the rejection of sender propagate
ExecuteAfterSender(p, c, active, move) ==
  IF c.out.status = "resolved"
  THEN RunOperation([p EXCEPT !.messageCount = CountMessages(@, c.messages),
                              !.sender = Append(@, Len(c.messages))], active, move)
  ELSE OperationSettles(p, Rejected(c.out.error), active)

\* executeTransaction after `await operation(sender)`
ExecuteAfterOperation(p, c, active) ==
  IF c.out.status = "resolved"
  THEN Awaiting([p EXCEPT !.pc = "await commit"], CommitEnter(active))
  ELSE ExecuteCatch(p, c.out.error, active, "operation")

\* executeTransaction after `await this.commitTransaction()`
ExecuteAfterCommit(p, c, active) ==
  IF c.out.status = "resolved"
  THEN Finished(Settled(p, [Resolved EXCEPT !.result = OperationResult,
                                            !.txnId = c.out.txnId,
                                            !.success = c.out.success,
                                            !.messageCount = p.messageCount]), active)
  ELSE ExecuteCatch(p, c.out.error, active, "commit")

\* executeTransaction after `await this.rollbackTransaction()`, whose failure
\* is logged only: `throw transactionResult`
ExecuteAfterRollback(p, c, active) ==
  Finished(Settled(p, [Pending EXCEPT
                         !.status = "rejected", !.thrown = "TransactionResult",
                         !.txnId = p.txnId, !.success = FALSE,
                         !.messageCount = p.messageCount,
                         !.error = IF p.error.isError THEN p.error ELSE UnknownError]),
           active)


\* ------------------------------------------------------------------------
\* State of one TransactionManager and of its callers
\* ------------------------------------------------------------------------
VARIABLES
  activeTransaction,  \* this.activeTransaction
  stack,              \* per caller: the frames of its call in progress, outermost first
  trace,              \* per caller: the broker calls its latest call has issued, in order
  result              \* per caller: the settled frame of its latest call, once settled

tmVars == <<activeTransaction, stack, trace, result>>

\* the MessageProducer of the same process and its caller, which no method
\* of the manager touches
VARIABLES
  producer,  \* the fields of the MessageProducer
  call,      \* the frame of the sendMessage or sendBatch call in progress
  net,       \* the network calls the latest call has issued, in order
  sent       \* the settled frame of the latest call, once settled

prodVars == <<producer, call, net, sent>>

\* the MessageConsumer of another process, which neither touches
VARIABLES
  consumer,  \* the fields of the MessageConsumer
  delivery,  \* the frame of the handleMessage call in progress
  handled    \* the settled frames of the handleMessage calls so far, and the clears

consVars == <<consumer, delivery, handled>>

\* objects of the common library on their own, each with its caller
VARIABLES
  messageRouter,       \* the fields of a MessageRouter
  rulesAdded,          \* the ids of its rules in the order they were added
  lastRoute,           \* the latest call of route: its message, the router, the result
  partitioner,         \* the fields of a Partitioner
  partitionerContext,  \* the PartitionerContext its caller passes
  picked,              \* the calls of partition and reset so far, with their results
  messageMetadata,     \* the EnhancedMessageMetadata a caller converts
  kafkaHeaders,        \* what metadataToHeaders made of it
  decoded              \* what headersToMetadata made of that

routerVars == <<messageRouter, rulesAdded, lastRoute>>
partitionerVars == <<partitioner, partitionerContext, picked>>
metadataVars == <<messageMetadata, kafkaHeaders, decoded>>
libVars == <<routerVars, partitionerVars, metadataVars>>

vars == <<tmVars, prodVars, consVars, libVars>>

NoResult == Frame("none", "", NULL)

\* the frame as kept: a settled frame records activeTransaction as the call settled
Kept(f, active) == IF f.pc = "settled" THEN [f EXCEPT !.out.after = active] ELSE f

Idle(t) == stack[t] = <<>>
Top(t) == stack[t][Len(stack[t])]
Below(t) == SubSeq(stack[t], 1, Len(stack[t]) - 1)
AtTop(t, op, pc) == ~Idle(t) /\ Top(t).op = op /\ Top(t).pc = pc

\* caller t invokes a method of the manager: s is its run up to the first await
Invoke(t, s) ==
  /\ activeTransaction' = s.active
  /\ trace' = [trace EXCEPT ![t] = s.calls]
  /\ IF s.frame.pc = "settled"
     THEN /\ stack' = stack
          /\ result' = [result EXCEPT ![t] = Kept(s.frame, s.active)]
     ELSE /\ stack' = [stack EXCEPT ![t] = <<s.frame>>]
          /\ result' = [result EXCEPT ![t] = NoResult]
  /\ UNCHANGED <<prodVars, consVars, libVars>>

\* the innermost call of t runs on after its await: s is that run
Resume(t, s) ==
  /\ activeTransaction' = s.active
  /\ trace' = [trace EXCEPT ![t] = @ \o s.calls]
  /\ IF s.frame.pc = "settled" /\ Len(stack[t]) = 1
     THEN /\ stack' = [stack EXCEPT ![t] = <<>>]
          /\ result' = [result EXCEPT ![t] = Kept(s.frame, s.active)]
     ELSE /\ stack' = [stack EXCEPT ![t] = Append(Below(t), Kept(s.frame, s.active))]
          /\ result' = result
  /\ UNCHANGED <<prodVars, consVars, libVars>>

\* executeTransaction of t runs on: e is that run
ResumeExecute(t, e) ==
  /\ activeTransaction' = e.child.active
  /\ trace' = [trace EXCEPT ![t] = @ \o e.child.calls]
  /\ IF e.hasChild
     THEN /\ stack' = [stack EXCEPT ![t] = <<e.parent, Kept(e.child.frame, e.child.active)>>]
          /\ result' = [result EXCEPT ![t] = NoResult]
     ELSE /\ stack' = [stack EXCEPT ![t] = <<>>]
          /\ result' = [result EXCEPT ![t] = Kept(e.parent, e.child.active)]
  /\ UNCHANGED <<prodVars, consVars, libVars>>

BeginCall(t) ==
  /\ Idle(t)
  /\ \E id \in CallerIds, g \in GenIds : Invoke(t, BeginEnter(activeTransaction, id, g))

BeginResume(t) ==
  /\ AtTop(t, "begin", "await transaction")
  /\ \E ok \in BOOLEAN : Resume(t, BeginAfterTransaction(Top(t), activeTransaction, ok))

SendCall(t) ==
  /\ Idle(t)
  /\ \E messages \in MsgLists : Invoke(t, SendEnter(activeTransaction, messages))

SendCallShort(t) ==
  /\ Idle(t)
  /\ \E messages \in MsgListsTo(MaxConcurrentMsgs) :
       Invoke(t, SendEnter(activeTransaction, messages))

SendResume(t) ==
  /\ AtTop(t, "send", "await send")
  /\ \E ok \in BOOLEAN : Resume(t, SendAfterSend(Top(t), activeTransaction, ok))

CommitStart(t) ==
  /\ Idle(t)
  /\ Invoke(t, CommitEnter(activeTransaction))

CommitGotTransaction(t) ==
  /\ AtTop(t, "commit", "await transaction")
  /\ \E ok \in BOOLEAN : Resume(t, CommitAfterTransaction(Top(t), activeTransaction, ok))

CommitResume(t) ==
  /\ AtTop(t, "commit", "await commit")
  /\ \E ok \in BOOLEAN : Resume(t, CommitAfterCommit(Top(t), activeTransaction, ok))

RollbackStart(t) ==
  /\ Idle(t)
  /\ Invoke(t, RollbackEnter(activeTransaction))

RollbackGotTransaction(t) ==
  /\ AtTop(t, "rollback", "await transaction")
  /\ \E ok \in BOOLEAN : Resume(t, RollbackAfterTransaction(Top(t), activeTransaction, ok))

RollbackResume(t) ==
  /\ AtTop(t, "rollback", "await abort")
  /\ \E ok \in BOOLEAN : Resume(t, RollbackAfterAbort(Top(t), activeTransaction, ok))

\* caller t invokes executeTransaction
ExecuteStart(t) ==
  \E g \in GenIds :
    LET e == ExecuteEnter(activeTransaction, g)
    IN /\ activeTransaction' = e.child.active
       /\ trace' = [trace EXCEPT ![t] = e.child.calls]
       /\ stack' = [stack EXCEPT ![t] = <<e.parent, Kept(e.child.frame, e.child.active)>>]
       /\ result' = [result EXCEPT ![t] = NoResult]

ExecuteCall(t) ==
  /\ Idle(t)
  /\ ExecuteStart(t)
  /\ UNCHANGED <<prodVars, consVars, libVars>>

\* the call executeTransaction awaits has settled
Awaited(t, pc) ==
  /\ Len(stack[t]) = 2
  /\ stack[t][1].op = "execute" /\ stack[t][1].pc = pc
  /\ stack[t][2].pc = "settled"

\* what the operation may do next: at most MaxSenderCalls sender calls
MovesAfter(p) == {m \in Moves : m.kind = "sender" => Len(p.sender) < MaxSenderCalls}

ExecuteBegun(t) ==
  /\ Awaited(t, "await begin")
  /\ \E move \in MovesAfter(stack[t][1]) :
       ResumeExecute(t, ExecuteAfterBegin(stack[t][1], stack[t][2], activeTransaction, move))

ExecuteSent(t) ==
  /\ Awaited(t, "await sender")
  /\ \E move \in {m \in Moves : m.kind = "sender" => Len(stack[t][1].sender) + 1 < MaxSenderCalls} :
       ResumeExecute(t, ExecuteAfterSender(stack[t][1], stack[t][2], activeTransaction, move))

ExecuteOperated(t) ==
  /\ Awaited(t, "await operation")
  /\ ResumeExecute(t, ExecuteAfterOperation(stack[t][1], stack[t][2], activeTransaction))

ExecuteCommitted(t) ==
  /\ Awaited(t, "await commit")
  /\ ResumeExecute(t, ExecuteAfterCommit(stack[t][1], stack[t][2], activeTransaction))

ExecuteRolledBack(t) ==
  /\ Awaited(t, "await rollback")
  /\ ResumeExecute(t, ExecuteAfterRollback(stack[t][1], stack[t][2], activeTransaction))

\* overlapping calls of begin, send, commit and rollback by all callers
TMNext ==
  \E t \in Tasks :
    \/ BeginCall(t)
    \/ BeginResume(t)
    \/ SendCallShort(t)
    \/ SendResume(t)
    \/ CommitStart(t)
    \/ CommitGotTransaction(t)
    \/ CommitResume(t)
    \/ RollbackStart(t)
    \/ RollbackGotTransaction(t)
    \/ RollbackResume(t)

\* one caller, who awaits each call before making the next
SeqNext ==
  \/ BeginCall(Caller)
  \/ BeginResume(Caller)
  \/ SendCall(Caller)
  \/ SendResume(Caller)
  \/ CommitStart(Caller)
  \/ CommitGotTransaction(Caller)
  \/ CommitResume(Caller)
  \/ RollbackStart(Caller)
  \/ RollbackGotTransaction(Caller)
  \/ RollbackResume(Caller)
  \/ ExecuteCall(Caller)
  \/ ExecuteBegun(Caller)
  \/ ExecuteSent(Caller)
  \/ ExecuteOperated(Caller)
  \/ ExecuteCommitted(Caller)
  \/ ExecuteRolledBack(Caller)

\* ------------------------------------------------------------------------
\* MessageProducer: payloads, validation, serialization
\* ------------------------------------------------------------------------
\* longest batch handed to sendBatch
MaxBatchItems == 7
\* longest batch holding an item of any kind
MaxMixedItems == 3
\* largest partition count the broker reports for a topic
MaxPartitions == 1
\* largest max batch size configured
MaxChunkSize == 3

\* config.kafkaTopic
KafkaTopic == "example-topic"

\* the payloads a caller sends, by the properties the code tests:
\*   jsonText   a string holding JSON, e.g. '{"a":1}'
\*   plainText  a string that is not JSON, e.g. 'hello'
\*   blank      a string that is empty or white space
\*   longJson   a string of more than 10000 characters holding JSON
\*   object     a plain object, cyclic an object JSON.stringify throws on
\*   number     a number, undefined the value undefined
Kinds == {"jsonText", "plainText", "blank", "longJson", "object", "cyclic", "number",
          "undefined"}
\* typeof message === 'string'
IsString(k) == k \in {"jsonText", "plainText", "blank", "longJson"}
\* message.trim().length === 0
TrimIsEmpty(k) == k = "blank"
\* message.length > 10000
TooLong(k) == k = "longJson"
\* JSON.parse(message) returns
JsonParses(k) == k \in {"jsonText", "longJson"}
\* typeof message === 'object' && message !== null
IsObject(k) == k \in {"object", "cyclic"}
\* JSON.stringify(message) throws
StringifyThrows(k) == k = "cyclic"
\* JSON.stringify(message) returns undefined
StringifyUndefined(k) == k = "undefined"

\* item i of a batch carries id i, so a batch has no duplicates
Item(k, i) == [kind |-> k, id |-> i]
Batch(kinds) == [i \in 1..Len(kinds) |-> Item(kinds[i], i)]
\* short batches: payloads that every schema and serializer accepts, but for
\* one item of any kind at any place
OneOdd(n) == {[i \in 1..n |-> IF i = at THEN k ELSE "jsonText"] : at \in 1..n, k \in Kinds}
ShortBatches == {Batch(kinds) : kinds \in {<<>>} \cup UNION {OneOdd(n) : n \in 1..MaxMixedItems}}
\* long batches of payloads that every schema and serializer accepts
LongBatches == {Batch([i \in 1..n |-> "jsonText"]) : n \in 0..MaxBatchItems}

Valid == [isValid |-> TRUE, error |-> ""]
Invalid(error) == [isValid |-> FALSE, error |-> error]

TextSchemaValidate(k) ==
  IF ~IsString(k) THEN Invalid("Message must be a string")
  ELSE IF TrimIsEmpty(k) THEN Invalid("Message cannot be empty")
  ELSE IF TooLong(k) THEN Invalid("Message too long (max 10000 characters)")
  ELSE Valid

JsonSchemaValidate(k) ==
  IF IsString(k) THEN (IF JsonParses(k) THEN Valid ELSE Invalid("Invalid JSON"))
  ELSE IF IsObject(k) THEN (IF StringifyThrows(k) THEN Invalid("Invalid JSON") ELSE Valid)
  ELSE Invalid("Message must be a valid JSON object or string")

\* MessageValidator.validate under the schema configured
Validate(schema, k) ==
  IF schema = "text" THEN TextSchemaValidate(k) ELSE JsonSchemaValidate(k)

\* what serialize returns: text is how the string was made, "undefined" when
\* JSON.stringify returned undefined instead of a string
Serialized(item, text) == [ok |-> TRUE, of |-> item, text |-> text]
SerializeThrows(item) == [ok |-> FALSE, of |-> item, text |-> "Serialization failed"]

StringSerialize(item) ==
  IF IsString(item.kind) THEN Serialized(item, "as is") ELSE Serialized(item, "String(data)")

JsonSerialize(item) ==
  IF IsString(item.kind)
  THEN (IF JsonParses(item.kind) THEN Serialized(item, "as is") ELSE SerializeThrows(item))
  ELSE IF StringifyThrows(item.kind) THEN SerializeThrows(item)
  ELSE IF StringifyUndefined(item.kind) THEN Serialized(item, "undefined")
  ELSE Serialized(item, "JSON.stringify(data)")

\* MessageSerializer.serialize under the format configured
Serialize(format, item) ==
  IF format = "string" THEN StringSerialize(item) ELSE JsonSerialize(item)

ValidationError == Err("Message validation failed", NULL)
BatchValidationError == Err("Batch message validation failed", NULL)
SerializationError == Err("Serialization failed", NULL)
\* Buffer.from(undefined) throws
BufferTypeError == Err("TypeError: the first argument must be a string", NULL)

\* partition: undefined
NoPartition == -1

\* RoundRobinPartitioner.partition: the index and the counter left behind
RoundRobin(counter, partitionCount) ==
  [partition |-> counter % partitionCount, counter |-> (counter + 1) % partitionCount]

\* `(await this.getTopicPartitionCount(topic)) || 3`; 0 stands for undefined
PartitionCountOr3(answer) == IF answer = 0 THEN 3 ELSE answer

\* Array.prototype.slice(from, to) for 0 <= from <= to
Slice(list, from, to) == SubSeq(list, from + 1, IF to < Len(list) THEN to ELSE Len(list))

\* the loop of chunkMessages from index i on; it ends only if chunkSize >= 1
RECURSIVE ChunkFrom(_, _, _)
ChunkFrom(messages, chunkSize, i) ==
  IF ~(i < Len(messages)) THEN <<>>
  ELSE <<Slice(messages, i, i + chunkSize)>> \o ChunkFrom(messages, chunkSize, i + chunkSize)

\* a chunkMessages that drops the chunk left over when it is not full
chunkMessages_FullOnly(messages, chunkSize) ==
  SelectSeq(ChunkFrom(messages, chunkSize, 0), LAMBDA chunk : Len(chunk) = chunkSize)

chunkMessages(messages, chunkSize) == ChunkFrom(messages, chunkSize, 0)

\* ------------------------------------------------------------------------
\* MessageRouter
\* ------------------------------------------------------------------------
\* most rules a router holds
MaxRules == 2

\* this.messageRouter left undefined, and the router the constructor builds
NoRouter == [enabled |-> FALSE, defaultTopic |-> "", rules |-> <<>>]
MessageRouter(defaultTopic) == [enabled |-> TRUE, defaultTopic |-> defaultTopic, rules |-> <<>>]

\* the rules a caller adds. Their conditions:
\*   content  createContentBasedRule(.., 'user.type', 'premium', ..): true of
\*            the object payload, false of every other payload
\*   always   a condition on metadata that every message of the caller meets
\*   unsafe   m => m.user.type === 'premium': true of the object payload, and
\*            a TypeError for a payload without a user property
Rule(id, condition, targetTopic, priority) ==
  [id |-> id, condition |-> condition, targetTopic |-> targetTopic, priority |-> priority]
Rules ==
  {Rule("premium-rule", "content", "premium-topic", 100),
   Rule("audit-rule", "always", "audit-topic", 100),
   Rule("vip-rule", "always", "vip-topic", 200),
   Rule("unsafe-rule", "unsafe", "unsafe-topic", 200)}

\* rule.condition(message, metadata): "true", "false" or "throws"
Condition(rule, k) ==
  CASE rule.condition = "content" -> IF k = "object" THEN "true" ELSE "false"
    [] rule.condition = "unsafe" -> IF k = "object" THEN "true" ELSE "throws"
    [] OTHER -> "true"

\* Array.prototype.sort((a, b) => b.priority - a.priority), which is stable:
\* an insertion sort from the left
RECURSIVE InsertByPriority(_, _)
InsertByPriority(sorted, rule) ==
  IF sorted = <<>> THEN <<rule>>
  ELSE IF Head(sorted).priority >= rule.priority
  THEN <<Head(sorted)>> \o InsertByPriority(Tail(sorted), rule)
  ELSE <<rule>> \o sorted
RECURSIVE SortByPriority(_)
SortByPriority(rules) ==
  IF rules = <<>> THEN <<>>
  ELSE InsertByPriority(SortByPriority(SubSeq(rules, 1, Len(rules) - 1)), rules[Len(rules)])

\* an addRule that leaves the rules in the order they were added
addRule_Unsorted(router, rule) == [router EXCEPT !.rules = Append(@, rule)]

\* MessageRouter.addRule
addRule(router, rule) == [router EXCEPT !.rules = SortByPriority(Append(@, rule))]

\* MessageRouter.removeRule
removeRule(router, ruleId) ==
  [router EXCEPT !.rules = SelectSeq(@, LAMBDA rule : rule.id # ruleId)]

\* the loop of route: the first rule whose condition returns true; one that
\* throws is passed over
RECURSIVE FirstMatch(_, _)
FirstMatch(rules, k) ==
  IF rules = <<>> THEN <<>>
  ELSE IF Condition(Head(rules), k) = "true" THEN <<Head(rules)>>
  ELSE FirstMatch(Tail(rules), k)

\* a RoutingResult: matchedRule is <<>> for undefined; threw: route threw instead
RoutingResult(topic, matchedRule, defaultRoute) ==
  [topic |-> topic, matchedRule |-> matchedRule, defaultRoute |-> defaultRoute, threw |-> FALSE]

\* the rules of a list up to the first one whose condition returns true
RECURSIVE Evaluated(_, _)
Evaluated(rules, k) ==
  IF rules = <<>> THEN <<>>
  ELSE IF Condition(Head(rules), k) = "true" THEN <<Head(rules)>>
  ELSE <<Head(rules)>> \o Evaluated(Tail(rules), k)

\* a route without the try block around the condition
route_Rethrows(router, k) ==
  LET matched == FirstMatch(router.rules, k)
      evaluated == Evaluated(router.rules, k)
  IN IF \E i \in 1..Len(evaluated) : Condition(evaluated[i], k) = "throws"
     THEN [RoutingResult("", <<>>, FALSE) EXCEPT !.threw = TRUE]
     ELSE IF matched # <<>> THEN RoutingResult(matched[1].targetTopic, matched, FALSE)
     ELSE RoutingResult(router.defaultTopic, <<>>, TRUE)

\* MessageRouter.route
route(router, k) ==
  LET matched == FirstMatch(router.rules, k)
  IN IF matched # <<>> THEN RoutingResult(matched[1].targetTopic, matched, FALSE)
     ELSE RoutingResult(router.defaultTopic, <<>>, TRUE)

\* the first index of a rule with this id, 0 for findIndex's -1
RuleIndex(rules, ruleId) ==
  IF \E i \in 1..Len(rules) : rules[i].id = ruleId
  THEN CHOOSE i \in 1..Len(rules) :
         rules[i].id = ruleId /\ \A j \in 1..(i - 1) : rules[j].id # ruleId
  ELSE 0

\* an updateRule that leaves the rule where it was
updateRule_Unsorted(router, ruleId, priority) ==
  LET ruleIndex == RuleIndex(router.rules, ruleId)
  IN IF ruleIndex = 0 THEN router
     ELSE [router EXCEPT !.rules[ruleIndex].priority = priority]

\* MessageRouter.updateRule(ruleId, {priority})
updateRule(router, ruleId, priority) ==
  LET ruleIndex == RuleIndex(router.rules, ruleId)
  IN IF ruleIndex = 0 THEN router
     ELSE [router EXCEPT
             !.rules = SortByPriority([@ EXCEPT ![ruleIndex].priority = priority])]

\* MessageRouter.clearRules
clearRules(router) == [router EXCEPT !.rules = <<>>]

\* `let targetTopic = config.kafkaTopic; if (this.messageRouter) ...`
TargetTopic(config, k) ==
  IF config.router.enabled THEN route(config.router, k).topic ELSE KafkaTopic

\* ------------------------------------------------------------------------
\* MessageProducer: sendMessage and sendBatch
\* ------------------------------------------------------------------------
\* this.compressionType left undefined, and the timeout of the constructor
NoCompression == "undefined"
DefaultTimeoutMs == 30000

\* a call the network received: a partition-count lookup or a broker send.
\* keys: the properties of the request handed to producer.send
Lookup(topic) ==
  [call |-> "lookup", topic |-> topic, messages |-> <<>>, keys |-> {"topics"},
   compression |-> NoCompression, timeout |-> 0]
Send(topic, messages) ==
  [call |-> "send", topic |-> topic, messages |-> messages, keys |-> {"topic", "messages"},
   compression |-> NoCompression, timeout |-> 0]
SendWith(topic, messages, compression, timeout) ==
  [call |-> "send", topic |-> topic, messages |-> messages,
   keys |-> {"topic", "compression", "timeout", "messages"},
   compression |-> compression, timeout |-> timeout]

\* a message as handed to producer.send
Wire(serialized, partition) == [value |-> serialized, partition |-> partition]

\* the frame of one sendMessage or sendBatch call.
\*   items: the payloads passed in; validated: this.enableValidation as the
\*   call read it (as it was made, until then);
\*   partitioned: whether it found a partitioner; messages: the wire messages
\*   built so far; chunkSize, chunkCount: what chunkMessages was called with
\*   and how many chunks it returned; chunks: the chunks not yet sent;
\*   failed: the chunk whose send the broker rejected, 0 when none;
\*   topic: targetTopic; router: the router as the call found it;
\*   value: what the call resolved to; thrown: the kind of value it rejected with;
\*   batching: this.batchingConfig as the call found it when it started;
\*   waited: the delays of the linger timers the call has set
PFrame(op, pc, items, config) ==
  [op |-> op, pc |-> pc, items |-> items, validated |-> config.enableValidation,
   partitioned |-> config.partitioner # "none", messages |-> <<>>, chunkSize |-> 0,
   chunkCount |-> 0, chunks |-> <<>>, failed |-> 0, topic |-> KafkaTopic,
   router |-> config.router, status |-> "pending", error |-> NoError, value |-> "",
   thrown |-> "none", batching |-> config.batching, waited |-> <<>>]
PSettle(f, status, error) == [f EXCEPT !.pc = "settled", !.status = status, !.error = error]

\* what one run of a producer call produces: its frame, the network calls it
\* issued and the counter of the round-robin partitioner
PStep(f, calls, counter) == [frame |-> f, calls |-> calls, counter |-> counter]

\* sendMessage from `await this.producer.send(...)` on: the message literal is
\* evaluated first, and Buffer.from(serializedMessage) throws on undefined
SendMessageSend(f, serialized, partition, counter) ==
  IF serialized.text = "undefined"
  THEN PStep(PSettle(f, "rejected", BufferTypeError), <<>>, counter)
  ELSE PStep([f EXCEPT !.pc = "await send", !.messages = <<Wire(serialized, partition)>>],
             <<Send(f.topic, <<Wire(serialized, partition)>>)>>, counter)

\* a sendMessage that validates nothing
SendMessageEnter_Unvalidated(config, item) ==
  LET f == PFrame("sendMessage", "", <<item>>, config)
      routed == [f EXCEPT !.topic = TargetTopic(config, item.kind)]
      serialized == Serialize(config.format, item)
  IN IF ~serialized.ok
     THEN PStep(PSettle(routed, "rejected", SerializationError), <<>>, config.counter)
     ELSE IF config.partitioner # "none"
     THEN PStep([routed EXCEPT !.pc = "await lookup",
                               !.messages = <<Wire(serialized, NoPartition)>>],
                <<Lookup(routed.topic)>>, config.counter)
     ELSE SendMessageSend(routed, serialized, NoPartition, config.counter)

\* sendMessage up to its first await
SendMessageEnter(config, item) ==
  LET f == PFrame("sendMessage", "", <<item>>, config)
      routed == [f EXCEPT !.topic = TargetTopic(config, item.kind)]
      serialized == Serialize(config.format, item)
  IN IF config.enableValidation /\ ~Validate(config.schema, item.kind).isValid
     THEN PStep(PSettle(f, "rejected", ValidationError), <<>>, config.counter)
     ELSE IF ~serialized.ok
     THEN PStep(PSettle(routed, "rejected", SerializationError), <<>>, config.counter)
     ELSE IF config.partitioner # "none"
     THEN PStep([routed EXCEPT !.pc = "await lookup",
                               !.messages = <<Wire(serialized, NoPartition)>>],
                <<Lookup(routed.topic)>>, config.counter)
     ELSE SendMessageSend(routed, serialized, NoPartition, config.counter)

\* sendMessage after `await this.getTopicPartitionCount(targetTopic)`
SendMessageAfterLookup(f, config, answer) ==
  LET rr == RoundRobin(config.counter, PartitionCountOr3(answer))
  IN SendMessageSend(f, f.messages[1].value, rr.partition, rr.counter)

\* sendMessage after `await this.producer.send(...)`
SendMessageAfterSend(f, config, ok) ==
  IF ok THEN PStep(PSettle(f, "resolved", NoError), <<>>, config.counter)
  ELSE PStep(PSettle(f, "rejected", BrokerSendError), <<>>, config.counter)

\* the loop of sendBatch over its items: the wire messages, or the error of
\* the first item that fails, and the round-robin counter left behind
RECURSIVE BuildMessages(_, _, _, _, _)
BuildMessages(config, validated, partitionCount, items, built) ==
  IF items = <<>> THEN [ok |-> TRUE, error |-> NoError, messages |-> built.messages,
                        counter |-> built.counter]
  ELSE LET item == Head(items)
           serialized == Serialize(config.format, item)
           rr == RoundRobin(built.counter, partitionCount)
       IN IF validated /\ ~Validate(config.schema, item.kind).isValid
          THEN [ok |-> FALSE, error |-> BatchValidationError, messages |-> built.messages,
                counter |-> built.counter]
          ELSE IF ~serialized.ok
          THEN [ok |-> FALSE, error |-> SerializationError, messages |-> built.messages,
                counter |-> built.counter]
          ELSE IF config.partitioner # "none" /\ partitionCount # 0
          THEN BuildMessages(config, validated, partitionCount, Tail(items),
                 [messages |-> Append(built.messages, Wire(serialized, rr.partition)),
                  counter |-> rr.counter])
          ELSE BuildMessages(config, validated, partitionCount, Tail(items),
                 [messages |-> Append(built.messages, Wire(serialized, NoPartition)),
                  counter |-> built.counter])

\* a sendBatch that sends each chunk to the topic the router picks for the
\* first item of the batch
SendBatchNext_Routed(f, config, counter) ==
  IF f.chunks = <<>> THEN PStep(PSettle(f, "resolved", NoError), <<>>, counter)
  ELSE PStep([f EXCEPT !.pc = "await send", !.chunks = Tail(@)],
             <<SendWith(TargetTopic(config, f.items[1].kind), Head(f.chunks),
                        config.compression, config.timeout)>>,
             counter)

\* sendBatch: the send of the next chunk, or the end of the loop over chunks
SendBatchNext(f, config, counter) ==
  IF f.chunks = <<>> THEN PStep(PSettle(f, "resolved", NoError), <<>>, counter)
  ELSE PStep([f EXCEPT !.pc = "await send", !.chunks = Tail(@)],
             <<SendWith(KafkaTopic, Head(f.chunks), config.compression, config.timeout)>>,
             counter)

\* sendBatch from the loop over its items up to the first send;
\* partitionCount is 0 for undefined
SendBatchPrepare(f, config, partitionCount) ==
  LET built == BuildMessages(config, config.enableValidation, partitionCount, f.items,
                             [messages |-> <<>>, counter |-> config.counter])
      size == config.batching.maxBatchSize
  IN IF ~built.ok
     THEN PStep(PSettle([f EXCEPT !.validated = config.enableValidation],
                        "rejected", built.error), <<>>, built.counter)
     ELSE IF size < 1 /\ Len(built.messages) > 0
     THEN PStep([f EXCEPT !.pc = "chunkMessages never returns", !.chunkSize = size,
                          !.validated = config.enableValidation,
                          !.messages = built.messages], <<>>, built.counter)
     ELSE LET chunks == chunkMessages(built.messages, size)
          IN SendBatchNext([f EXCEPT !.messages = built.messages, !.chunkSize = size,
                                     !.validated = config.enableValidation,
                                     !.chunkCount = Len(chunks), !.chunks = chunks],
                           config, built.counter)

\* sendBatch up to its first await
SendBatchEnter(config, items) ==
  LET f == PFrame("sendBatch", "", items, config)
  IN IF config.partitioner # "none"
     THEN PStep([f EXCEPT !.pc = "await lookup"], <<Lookup(KafkaTopic)>>, config.counter)
     ELSE SendBatchPrepare(f, config, 0)

\* sendBatch after `await this.getTopicPartitionCount(config.kafkaTopic)`
SendBatchAfterLookup(f, config, answer) ==
  SendBatchPrepare(f, config, PartitionCountOr3(answer))

\* a sendBatch that goes on to the chunks left after a send failed
SendBatchAfterSend_SendsOn(f, config, ok) ==
  IF ~ok /\ f.chunks = <<>>
  THEN PStep(PSettle([f EXCEPT !.failed = f.chunkCount], "rejected", BrokerSendError),
             <<>>, config.counter)
  ELSE IF ~ok
  THEN PStep([f EXCEPT !.pc = "await send", !.chunks = Tail(@),
                       !.failed = f.chunkCount - Len(f.chunks)],
             <<SendWith(KafkaTopic, Head(f.chunks), config.compression, config.timeout)>>,
             config.counter)
  ELSE SendBatchNext(f, config, config.counter)

\* sendBatch after `await this.producer.send(...)` of one chunk: a rejection
\* leaves the loop for the catch block, which rethrows it
SendBatchAfterSend(f, config, ok) ==
  IF ~ok THEN PStep(PSettle([f EXCEPT !.failed = f.chunkCount - Len(f.chunks)],
                            "rejected", BrokerSendError), <<>>, config.counter)
  ELSE IF f.chunkCount > 1 /\ config.batching.lingerMs > 0
  THEN PStep([f EXCEPT !.pc = "await linger",
                       !.waited = Append(@, config.batching.lingerMs)], <<>>, config.counter)
  ELSE SendBatchNext(f, config, config.counter)

\* sendBatch after the linger timer fired
SendBatchAfterLinger(f, config) == SendBatchNext(f, config, config.counter)

\* updateConfiguration({batching}): a field left out keeps its value (-1)
UpdateBatching(batching, maxBatchSize, lingerMs) ==
  [maxBatchSize |-> IF maxBatchSize = -1 THEN batching.maxBatchSize ELSE maxBatchSize,
   lingerMs |-> IF lingerMs = -1 THEN batching.lingerMs ELSE lingerMs]

TransactionsNotEnabled == Err("Transactions are not enabled", NULL)

\* a sendInTransaction that does not look for the transaction manager
SendInTransactionEnter_Unchecked(config) ==
  PStep([PFrame("sendInTransaction", "", <<>>, config) EXCEPT !.pc = "await executeTransaction"],
        <<>>, config.counter)

\* MessageProducer.sendInTransaction up to `await ...executeTransaction(operation)`
SendInTransactionEnter(config) ==
  LET f == PFrame("sendInTransaction", "", <<>>, config)
  IN IF ~config.transactions
     THEN PStep([PSettle(f, "rejected", TransactionsNotEnabled) EXCEPT !.thrown = "Error"],
                <<>>, config.counter)
     ELSE PStep([f EXCEPT !.pc = "await executeTransaction"], <<>>, config.counter)

\* a sendInTransaction that returns the TransactionResultWithData itself
SendInTransactionAfterExecute_Whole(f, executed) ==
  IF executed.out.status = "resolved"
  THEN [PSettle(f, "resolved", NoError) EXCEPT !.value = "TransactionResultWithData"]
  ELSE [PSettle(f, "rejected", executed.out.error) EXCEPT !.thrown = executed.out.thrown]

\* MessageProducer.sendInTransaction after `await ...executeTransaction(operation)`:
\* `return result.result`, or the rejection of executeTransaction as it is
SendInTransactionAfterExecute(f, executed) ==
  IF executed.out.status = "resolved"
  THEN [PSettle(f, "resolved", NoError) EXCEPT !.value = executed.out.result]
  ELSE [PSettle(f, "rejected", executed.out.error) EXCEPT !.thrown = executed.out.thrown]

\* a property the caller of updateConfiguration leaves out
LeftOut == "left out"

\* MessageProducer.updateConfiguration
updateConfiguration(config, update) ==
  [config EXCEPT
     !.compression = IF update.compression = LeftOut THEN @ ELSE update.compression,
     !.batching = UpdateBatching(@, update.maxBatchSize, update.lingerMs),
     !.timeout = IF update.timeout = -1 THEN @ ELSE update.timeout]

\* MessageProducer.addRoutingRule, which throws when routing is not enabled
addRoutingRule(config, rule) ==
  IF ~config.router.enabled THEN config
  ELSE [config EXCEPT !.router = addRule(@, rule)]

\* MessageProducer.removeRoutingRule
removeRoutingRule(config, ruleId) ==
  IF ~config.router.enabled THEN config
  ELSE [config EXCEPT !.router = removeRule(@, ruleId)]

\* ------------------------------------------------------------------------
\* State of one MessageProducer and of its caller
\* ------------------------------------------------------------------------
BatchSizes == 0..MaxChunkSize
Lingers == {0, 100}

\* the producers the constructor builds from its options
Producers ==
  [enableValidation : BOOLEAN, schema : {"text", "json"}, format : {"string", "json"},
   partitioner : {"none", "roundRobin"}, counter : {0},
   batching : [maxBatchSize : BatchSizes, lingerMs : Lingers],
   compression : {NoCompression}, timeout : {DefaultTimeoutMs}, router : {NoRouter},
   transactions : {FALSE}]

\* the producer built from no options at all, but for its max batch size
DefaultProducer ==
  [enableValidation |-> TRUE, schema |-> "text", format |-> "json", partitioner |-> "none",
   counter |-> 0, batching |-> [maxBatchSize |-> MaxChunkSize, lingerMs |-> 100],
   compression |-> NoCompression, timeout |-> DefaultTimeoutMs, router |-> NoRouter,
   transactions |-> FALSE]

NoCall == [PFrame("none", "", <<>>, DefaultProducer) EXCEPT !.validated = FALSE]

\* the caller invokes sendMessage or sendBatch: s is its run up to the first await
PInvoke(s) ==
  /\ net' = s.calls
  /\ producer' = [producer EXCEPT !.counter = s.counter]
  /\ IF s.frame.pc = "settled"
     THEN call' = NoCall /\ sent' = s.frame
     ELSE call' = s.frame /\ sent' = NoCall
  /\ UNCHANGED <<tmVars, consVars, libVars>>

\* the call in progress runs on after its await: s is that run
PResume(s) ==
  /\ net' = net \o s.calls
  /\ producer' = [producer EXCEPT !.counter = s.counter]
  /\ IF s.frame.pc = "settled"
     THEN call' = NoCall /\ sent' = s.frame
     ELSE call' = s.frame /\ sent' = sent
  /\ UNCHANGED <<tmVars, consVars, libVars>>

SendMessageCall ==
  /\ call = NoCall
  /\ \E k \in Kinds : PInvoke(SendMessageEnter(producer, Item(k, 1)))

SendMessageLookedUp ==
  /\ call.op = "sendMessage" /\ call.pc = "await lookup"
  /\ \E answer \in 0..MaxPartitions : PResume(SendMessageAfterLookup(call, producer, answer))

SendMessageSent ==
  /\ call.op = "sendMessage" /\ call.pc = "await send"
  /\ \E ok \in BOOLEAN : PResume(SendMessageAfterSend(call, producer, ok))

SendBatchCall ==
  /\ call = NoCall
  /\ \E items \in ShortBatches : PInvoke(SendBatchEnter(producer, items))

SendBatchCallLong ==
  /\ call = NoCall
  /\ \E items \in LongBatches : PInvoke(SendBatchEnter(producer, items))

\* the batches sent through a producer with a router: payloads the content
\* rules tell apart
RoutedBatches == {Batch(<<"object">>), Batch(<<"jsonText">>), Batch(<<"jsonText", "object">>)}

SendBatchCallRouted ==
  /\ call = NoCall
  /\ \E items \in RoutedBatches : PInvoke(SendBatchEnter(producer, items))

SendBatchLookedUp ==
  /\ call.op = "sendBatch" /\ call.pc = "await lookup"
  /\ \E answer \in 0..MaxPartitions : PResume(SendBatchAfterLookup(call, producer, answer))

SendBatchSent ==
  /\ call.op = "sendBatch" /\ call.pc = "await send"
  /\ \E ok \in BOOLEAN : PResume(SendBatchAfterSend(call, producer, ok))

SendBatchLingered ==
  /\ call.op = "sendBatch" /\ call.pc = "await linger"
  /\ PResume(SendBatchAfterLinger(call, producer))

SetValidationEnabled ==
  /\ \E enabled \in BOOLEAN : producer' = [producer EXCEPT !.enableValidation = enabled]
  /\ UNCHANGED <<call, net, sent, tmVars, consVars, libVars>>

\* updateConfiguration({batching: ...})
BatchingUpdates ==
  [compression : {LeftOut}, maxBatchSize : BatchSizes \cup {-1},
   lingerMs : Lingers \cup {-1}, timeout : {-1}]
\* updateConfiguration({compression: ..., timeout: ...})
TransportUpdates ==
  [compression : {"gzip"}, maxBatchSize : {-1}, lingerMs : {-1}, timeout : {5000}]

UpdateConfiguration(updates) ==
  /\ \E update \in updates : producer' = updateConfiguration(producer, update)
  /\ UNCHANGED <<call, net, sent, tmVars, consVars, libVars>>

AddRoutingRule ==
  /\ Len(producer.router.rules) < MaxRules
  /\ \E rule \in Rules : producer' = addRoutingRule(producer, rule)
  /\ UNCHANGED <<call, net, sent, tmVars, consVars, libVars>>

RemoveRoutingRule ==
  /\ \E rule \in Rules : producer' = removeRoutingRule(producer, rule.id)
  /\ UNCHANGED <<call, net, sent, tmVars, consVars, libVars>>

SetPartitioner ==
  /\ producer' = [producer EXCEPT !.partitioner = "roundRobin", !.counter = 0]
  /\ UNCHANGED <<call, net, sent, tmVars, consVars, libVars>>

\* sendInTransaction(operation): with a transaction manager, the caller's
\* executeTransaction starts in the same run
SendInTransactionCall ==
  /\ call = NoCall /\ Idle(Caller)
  /\ LET s == SendInTransactionEnter(producer)
     IN IF s.frame.pc = "settled"
        THEN call' = NoCall /\ sent' = s.frame /\ UNCHANGED tmVars
        ELSE call' = s.frame /\ sent' = NoCall /\ ExecuteStart(Caller)
  /\ net' = <<>>
  /\ producer' = producer
  /\ UNCHANGED <<consVars, libVars>>

\* the executeTransaction that sendInTransaction awaits has settled
SendInTransactionReturned ==
  /\ call.op = "sendInTransaction" /\ call.pc = "await executeTransaction"
  /\ Idle(Caller) /\ result[Caller].op = "execute"
  /\ sent' = SendInTransactionAfterExecute(call, result[Caller])
  /\ call' = NoCall
  /\ UNCHANGED <<producer, net, tmVars, consVars, libVars>>

\* ------------------------------------------------------------------------
\* MessageConsumer
\* ------------------------------------------------------------------------
\* most messages delivered and clears, taken together
MaxDeliveries == 3

\* JSON values by their JavaScript type
Undefined == [type |-> "undefined", n |-> 0, s |-> ""]
Null == [type |-> "null", n |-> 0, s |-> ""]
Num(n) == [type |-> "number", n |-> n, s |-> ""]
Str(s) == [type |-> "string", n |-> 0, s |-> s]

requiredFields == <<"id", "orderId", "customerId", "amount", "createdAt", "status">>

\* a well-formed OrderCreatedEvent
OrderCreatedEvent(id) ==
  [id |-> Str(id), orderId |-> Str("order-1"), customerId |-> Str("customer-1"),
   amount |-> Num(10), createdAt |-> Str("2024-01-01T00:00:00Z"), status |-> Str("CREATED")]

\* what JSON.parse returns: an object with these properties, or null
Object(fields) == [type |-> "object", fields |-> fields]
JsonNull == [type |-> "null", fields |-> [f \in {"id"} |-> Undefined]]

\* context.rawMessage: its text, and what JSON.parse makes of it
Raw(text, parsed) == [text |-> text, parsed |-> parsed]

EventIds == {"X", "Y"}

\* the payloads delivered, by what is wrong with them
Payload(shape, id) ==
  CASE shape = "empty" -> Raw("", JsonNull)
    [] shape = "not JSON" -> Raw("{not JSON", JsonNull)
    [] shape = "null" -> Raw("null", JsonNull)
    [] shape = "no orderId" ->
         Raw("event", Object([OrderCreatedEvent(id) EXCEPT !.orderId = Undefined]))
    [] shape = "amount is a string" ->
         Raw("event", Object([OrderCreatedEvent(id) EXCEPT !.amount = Str("10")]))
    [] shape = "negative amount" ->
         Raw("event", Object([OrderCreatedEvent(id) EXCEPT !.amount = Num(-1)]))
    [] shape = "no date" ->
         Raw("event", Object([OrderCreatedEvent(id) EXCEPT !.createdAt = Str("yesterday")]))
    [] OTHER -> Raw("event", Object(OrderCreatedEvent(id)))

InvalidShapes ==
  {"empty", "not JSON", "null", "no orderId", "amount is a string", "negative amount",
   "no date"}

\* a message as the broker delivers it; shape and id are not seen by the consumer
Message(shape, id) == [shape |-> shape, id |-> id, raw |-> Payload(shape, id)]

Messages ==
  {Message(shape, "X") : shape \in InvalidShapes} \cup {Message("valid", id) : id \in EventIds}

\* MessageConsumer.parseMessage
parseMessage(rawMessage) ==
  IF rawMessage.text \in {"null", "event"}
  THEN [result |-> "SUCCESS", event |-> rawMessage.parsed]
  ELSE [result |-> "DLQ", event |-> JsonNull]

\* isNaN(new Date(value).getTime())
IsNaNDate(value) ==
  CASE value.type = "string" -> value.s \notin {"2024-01-01T00:00:00Z"}
    [] value.type = "undefined" -> TRUE
    [] OTHER -> FALSE

\* a validateEventStructure that accepts any amount
validateEventStructure_AnyAmount(event) ==
  IF event.type = "null" THEN "DLQ"
  ELSE IF \E i \in 1..Len(requiredFields) : event.fields[requiredFields[i]].type = "undefined"
  THEN "DLQ"
  ELSE IF IsNaNDate(event.fields.createdAt) THEN "DLQ"
  ELSE "SUCCESS"

\* MessageConsumer.validateEventStructure
validateEventStructure(event) ==
  IF event.type = "null" THEN "DLQ"
  ELSE IF \E i \in 1..Len(requiredFields) : event.fields[requiredFields[i]].type = "undefined"
  THEN "DLQ"
  ELSE IF event.fields.amount.type # "number" \/ event.fields.amount.n < 0 THEN "DLQ"
  ELSE IF IsNaNDate(event.fields.createdAt) THEN "DLQ"
  ELSE "SUCCESS"

\* what processOrderEvent resolves to: 'ERROR' when its try block throws
ProcessingResults == {"SUCCESS", "ERROR"}

NoMetrics ==
  [totalMessages |-> 0, processedMessages |-> 0, skippedMessages |-> 0, errorMessages |-> 0,
   dlqMessages |-> 0]

\* the consumer as initialized, and its process:
\*   signals: the SIGINT and SIGTERM received; disconnects: the calls of
\*   this.consumer.disconnect(); disconnecting: those still pending;
\*   exit: "running", or the process.exit that ended the process
MessageConsumer ==
  [isShuttingDown |-> FALSE, processedEventIds |-> {}, metrics |-> NoMetrics, signals |-> 0,
   disconnects |-> 0, disconnecting |-> 0, exit |-> "running"]

\* this.metrics.<counter>++
Count(c, counter) == [c EXCEPT !.metrics[counter] = @ + 1]

\* a frame of handleMessage (op "handleMessage"), or the mark a
\* clearProcessedEventIds leaves among them (op "clearProcessedEventIds"):
\*   message: the message delivered; before, after: the consumer as the call
\*   found it and left it; invoked: processOrderEvent was called;
\*   classification: IGNORED, DLQ, SKIP, SUCCESS or ERROR; threw: the call rejected
HFrame(op, message, c) ==
  [op |-> op, message |-> message, pc |-> "", before |-> c, after |-> c, invoked |-> FALSE,
   classification |-> "", threw |-> FALSE]

NoDelivery == HFrame("none", Message("empty", "X"), MessageConsumer)

\* one run of handleMessage: the consumer and the frame it leaves
HStep(c, f) == [consumer |-> c, frame |-> f]

\* handleMessage returns, or throws
HSettle(c, f, classification, threw) ==
  HStep(c, [f EXCEPT !.pc = "settled", !.after = c, !.classification = classification,
                     !.threw = threw])

\* a handleMessage that counts the message before it looks at the flag
handleMessageEnter_CountsFirst(c, message) ==
  LET f == HFrame("handleMessage", message, c)
      counted == Count(c, "totalMessages")
      parseResult == parseMessage(message.raw)
  IN IF c.isShuttingDown THEN HSettle(counted, f, "IGNORED", FALSE)
     ELSE IF message.raw.text = "" THEN HSettle(Count(counted, "dlqMessages"), f, "DLQ", FALSE)
     ELSE IF parseResult.result = "DLQ"
     THEN HSettle(Count(counted, "dlqMessages"), f, "DLQ", FALSE)
     ELSE IF validateEventStructure(parseResult.event) = "DLQ"
     THEN HSettle(Count(counted, "dlqMessages"), f, "DLQ", FALSE)
     ELSE IF parseResult.event.fields.id \in c.processedEventIds
     THEN HSettle(Count(counted, "skippedMessages"), f, "SKIP", FALSE)
     ELSE HStep(counted, [f EXCEPT !.pc = "await processOrderEvent", !.invoked = TRUE])

\* a handleMessage that does not look an event up among the processed ones
handleMessageEnter_Reprocesses(c, message) ==
  LET f == HFrame("handleMessage", message, c)
      counted == Count(c, "totalMessages")
      parseResult == parseMessage(message.raw)
  IN IF c.isShuttingDown THEN HSettle(c, f, "IGNORED", FALSE)
     ELSE IF message.raw.text = "" THEN HSettle(Count(counted, "dlqMessages"), f, "DLQ", FALSE)
     ELSE IF parseResult.result = "DLQ"
     THEN HSettle(Count(counted, "dlqMessages"), f, "DLQ", FALSE)
     ELSE IF validateEventStructure(parseResult.event) = "DLQ"
     THEN HSettle(Count(counted, "dlqMessages"), f, "DLQ", FALSE)
     ELSE HStep(counted, [f EXCEPT !.pc = "await processOrderEvent", !.invoked = TRUE])

\* MessageConsumer.handleMessage up to `await this.processOrderEvent(event)`
handleMessageEnter(c, message) ==
  LET f == HFrame("handleMessage", message, c)
      counted == Count(c, "totalMessages")
      parseResult == parseMessage(message.raw)
  IN IF c.isShuttingDown THEN HSettle(c, f, "IGNORED", FALSE)
     ELSE IF message.raw.text = "" THEN HSettle(Count(counted, "dlqMessages"), f, "DLQ", FALSE)
     ELSE IF parseResult.result = "DLQ"
     THEN HSettle(Count(counted, "dlqMessages"), f, "DLQ", FALSE)
     ELSE IF validateEventStructure(parseResult.event) = "DLQ"
     THEN HSettle(Count(counted, "dlqMessages"), f, "DLQ", FALSE)
     ELSE IF parseResult.event.fields.id \in c.processedEventIds
     THEN HSettle(Count(counted, "skippedMessages"), f, "SKIP", FALSE)
     ELSE HStep(counted, [f EXCEPT !.pc = "await processOrderEvent", !.invoked = TRUE])

\* a handleMessage that does not remember the events it processed
handleMessageAfterProcess_Forgets(c, f, processingResult) ==
  CASE processingResult = "SUCCESS" -> HSettle(Count(c, "processedMessages"), f, "SUCCESS", FALSE)
    [] processingResult = "ERROR" ->
         HSettle(Count(Count(c, "errorMessages"), "errorMessages"), f, "ERROR", TRUE)
    [] OTHER -> HSettle(Count(c, "dlqMessages"), f, "DLQ", FALSE)

\* a handleMessage that swallows the failure and remembers the event
handleMessageAfterProcess_Swallows(c, f, processingResult) ==
  LET id == f.message.raw.parsed.fields.id
      added == [c EXCEPT !.processedEventIds = @ \cup {id}]
  IN CASE processingResult = "SUCCESS" ->
            HSettle(Count(added, "processedMessages"), f, "SUCCESS", FALSE)
       [] processingResult = "ERROR" ->
            HSettle(Count(Count(added, "errorMessages"), "errorMessages"), f, "ERROR", FALSE)
       [] OTHER -> HSettle(Count(c, "dlqMessages"), f, "DLQ", FALSE)

\* a handleMessage that looks at the flag again when the handler returns
handleMessageAfterProcess_Rechecks(c, f, processingResult) ==
  IF c.isShuttingDown THEN HSettle(c, f, "IGNORED", FALSE)
  ELSE CASE processingResult = "SUCCESS" ->
              HSettle(Count([c EXCEPT !.processedEventIds =
                                        @ \cup {f.message.raw.parsed.fields.id}],
                            "processedMessages"), f, "SUCCESS", FALSE)
         [] processingResult = "ERROR" ->
              HSettle(Count(Count(c, "errorMessages"), "errorMessages"), f, "ERROR", TRUE)
         [] OTHER -> HSettle(Count(c, "dlqMessages"), f, "DLQ", FALSE)

\* MessageConsumer.handleMessage after `await this.processOrderEvent(event)`:
\* the throw of the 'ERROR' case passes through the catch block, which
\* counts it again and rethrows it
handleMessageAfterProcess(c, f, processingResult) ==
  LET id == f.message.raw.parsed.fields.id
  IN CASE processingResult = "SUCCESS" ->
            HSettle(Count([c EXCEPT !.processedEventIds = @ \cup {id}], "processedMessages"),
                    f, "SUCCESS", FALSE)
       [] processingResult = "ERROR" ->
            HSettle(Count(Count(c, "errorMessages"), "errorMessages"), f, "ERROR", TRUE)
       [] OTHER -> HSettle(Count(c, "dlqMessages"), f, "DLQ", FALSE)

\* MessageConsumer.clearProcessedEventIds
clearProcessedEventIds(c) == [c EXCEPT !.processedEventIds = {}]

\* a gracefulShutdown that empties the processed ids
gracefulShutdown_Clears(c) ==
  [c EXCEPT !.isShuttingDown = TRUE, !.processedEventIds = {}, !.disconnects = @ + 1,
            !.disconnecting = @ + 1]

\* MessageConsumer.gracefulShutdown up to `await this.consumer.disconnect()`
gracefulShutdown(c) ==
  [c EXCEPT !.isShuttingDown = TRUE, !.disconnects = @ + 1, !.disconnecting = @ + 1]

\* MessageConsumer.gracefulShutdown after `await this.consumer.disconnect()`:
\* process.exit(0), or process.exit(1) from the catch block
gracefulShutdownAfterDisconnect(c, ok) ==
  [c EXCEPT !.disconnecting = @ - 1, !.exit = IF ok THEN "exit(0)" ELSE "exit(1)"]

\* the handler of SIGINT and SIGTERM that setupGracefulShutdown installs
shutdown(c) ==
  IF c.isShuttingDown THEN [c EXCEPT !.signals = @ + 1, !.exit = "exit(1)"]
  ELSE gracefulShutdown([c EXCEPT !.signals = @ + 1])

\* a stop that does not look at the flag
stop_Unchecked(c) == gracefulShutdown(c)

\* MessageConsumer.stop up to its await
stop(c) == IF ~c.isShuttingDown THEN gracefulShutdown(c) ELSE c

\* MessageConsumer.getMetrics
getMetrics(c) ==
  [totalMessages |-> c.metrics.totalMessages,
   processedMessages |-> c.metrics.processedMessages,
   skippedMessages |-> c.metrics.skippedMessages,
   errorMessages |-> c.metrics.errorMessages,
   dlqMessages |-> c.metrics.dlqMessages,
   processedEventIdsCount |-> Cardinality(c.processedEventIds)]

\* the broker delivers a message: eachMessage calls handleMessage, one
\* message at a time
Deliver ==
  /\ consumer.exit = "running"
  /\ delivery = NoDelivery /\ Len(handled) < MaxDeliveries
  /\ \E message \in Messages :
       LET s == handleMessageEnter(consumer, message)
       IN /\ consumer' = s.consumer
          /\ IF s.frame.pc = "settled"
             THEN delivery' = NoDelivery /\ handled' = Append(handled, s.frame)
             ELSE delivery' = s.frame /\ handled' = handled
  /\ UNCHANGED <<tmVars, prodVars, libVars>>

\* processOrderEvent settles and handleMessage runs to its end
Processed ==
  /\ consumer.exit = "running"
  /\ delivery.pc = "await processOrderEvent"
  /\ \E processingResult \in ProcessingResults :
       LET s == handleMessageAfterProcess(consumer, delivery, processingResult)
       IN /\ consumer' = s.consumer
          /\ delivery' = NoDelivery
          /\ handled' = Append(handled, s.frame)
  /\ UNCHANGED <<tmVars, prodVars, libVars>>

\* a SIGINT or SIGTERM arrives
Signal ==
  /\ consumer.exit = "running"
  /\ consumer' = shutdown(consumer)
  /\ UNCHANGED <<delivery, handled, tmVars, prodVars, libVars>>

\* the owner of the consumer calls stop()
Stop ==
  /\ consumer.exit = "running"
  /\ consumer' = stop(consumer)
  /\ UNCHANGED <<delivery, handled, tmVars, prodVars, libVars>>

\* the disconnect that gracefulShutdown awaits settles
Disconnected ==
  /\ consumer.exit = "running" /\ consumer.disconnecting > 0
  /\ \E ok \in BOOLEAN : consumer' = gracefulShutdownAfterDisconnect(consumer, ok)
  /\ UNCHANGED <<delivery, handled, tmVars, prodVars, libVars>>

ClearProcessedEventIds ==
  /\ consumer.exit = "running"
  /\ Len(handled) < MaxDeliveries
  /\ consumer' = clearProcessedEventIds(consumer)
  /\ handled' = Append(handled, HFrame("clearProcessedEventIds", Message("empty", "X"), consumer))
  /\ UNCHANGED <<delivery, tmVars, prodVars, libVars>>

\* ------------------------------------------------------------------------
\* A MessageRouter and its caller
\* ------------------------------------------------------------------------
NoRoute == [message |-> "", router |-> NoRouter, result |-> RoutingResult("", <<>>, FALSE)]

\* the payloads routed: one with user.type 'premium', one without a user
Routables == {"object", "plainText"}

Priorities == {rule.priority : rule \in Rules}

\* the caller adds a rule whose id no rule of the router has
AddRule ==
  /\ Len(messageRouter.rules) < MaxRules
  /\ \E rule \in Rules :
       /\ \A i \in 1..Len(messageRouter.rules) : messageRouter.rules[i].id # rule.id
       /\ messageRouter' = addRule(messageRouter, rule)
       /\ rulesAdded' = Append(rulesAdded, rule.id)
  /\ UNCHANGED <<lastRoute, partitionerVars, metadataVars, tmVars, prodVars, consVars>>

\* the caller adds a rule under an id that a rule of the router has already
AddRuleAgain ==
  /\ Len(messageRouter.rules) < MaxRules
  /\ \E rule \in Rules :
       /\ \E i \in 1..Len(messageRouter.rules) : messageRouter.rules[i].id = rule.id
       /\ messageRouter' = addRule(messageRouter, rule)
       /\ rulesAdded' = Append(rulesAdded, rule.id)
  /\ UNCHANGED <<lastRoute, partitionerVars, metadataVars, tmVars, prodVars, consVars>>

RemoveRule ==
  /\ \E rule \in Rules :
       /\ messageRouter' = removeRule(messageRouter, rule.id)
       /\ rulesAdded' = SelectSeq(rulesAdded, LAMBDA id : id # rule.id)
  /\ UNCHANGED <<lastRoute, partitionerVars, metadataVars, tmVars, prodVars, consVars>>

UpdateRule ==
  /\ \E rule \in Rules, priority \in Priorities :
       messageRouter' = updateRule(messageRouter, rule.id, priority)
  /\ UNCHANGED <<rulesAdded, lastRoute, partitionerVars, metadataVars, tmVars, prodVars,
                 consVars>>

ClearRules ==
  /\ messageRouter' = clearRules(messageRouter)
  /\ rulesAdded' = <<>>
  /\ UNCHANGED <<lastRoute, partitionerVars, metadataVars, tmVars, prodVars, consVars>>

Route ==
  /\ \E k \in Routables :
       lastRoute' = [message |-> k, router |-> messageRouter,
                     result |-> route(messageRouter, k)]
  /\ UNCHANGED <<messageRouter, rulesAdded, partitionerVars, metadataVars, tmVars, prodVars,
                 consVars>>

\* ------------------------------------------------------------------------
\* A Partitioner and its caller
\* ------------------------------------------------------------------------
\* largest partitionCount a caller passes
MaxPartitionCount == 3
\* most calls of partition and reset on one partitioner
MaxCalls == 5
\* longest key, in UTF-16 code units
MaxKeyLen == 5
\* longest list of weights
MaxWeights == 3

\* no partitioner; error: what its constructor threw
NoPartitioner ==
  [kind |-> "none", counter |-> 0, weights |-> <<>>, cumulativeWeights |-> <<>>, error |-> ""]
\* a PartitionerContext: key is a sequence of char codes, <<>> for undefined or ''
Context(key, partitionCount) == [key |-> key, partitionCount |-> partitionCount]
NoContext == Context(<<>>, 0)

\* a call of partition or reset; random: the draw of Math.random behind it,
\* partition: the index returned
Pick(op, c, random, partition) ==
  [op |-> op, context |-> c, random |-> random, partition |-> partition]

\* new RoundRobinPartitioner()
RoundRobinPartitioner == [NoPartitioner EXCEPT !.kind = "RoundRobinPartitioner"]

\* a reset that leaves the counter where it is
reset_Keeps(p) == p

\* RoundRobinPartitioner.reset
reset(p) == [p EXCEPT !.counter = 0]

\* new HashPartitioner()
HashPartitioner == [NoPartitioner EXCEPT !.kind = "HashPartitioner"]

\* a 32-bit integer as its two 16-bit halves, both unsigned
Word(hi, lo) == [hi |-> hi, lo |-> lo]

\* the low 32 bits of word + n, for 0 <= n < 2^16
PlusWord(word, n) ==
  Word((word.hi + (word.lo + n) \div 65536) % 65536, (word.lo + n) % 65536)

\* the low 32 bits of a - b
MinusWord(a, b) ==
  Word((a.hi - b.hi - (IF a.lo < b.lo THEN 1 ELSE 0) + 2 * 65536) % 65536,
       (a.lo - b.lo + 65536) % 65536)

\* hash << 5
ShiftLeft5(word) ==
  Word((word.hi * 32 + (word.lo * 32) \div 65536) % 65536, (word.lo * 32) % 65536)

\* the loop of simpleHash: `hash = ((hash << 5) - hash) + char; hash = hash & hash`
RECURSIVE simpleHashFrom(_, _)
simpleHashFrom(hash, str) ==
  IF str = <<>> THEN hash
  ELSE simpleHashFrom(PlusWord(MinusWord(ShiftLeft5(hash), hash), Head(str)), Tail(str))

\* HashPartitioner.simpleHash
simpleHash(str) == simpleHashFrom(Word(0, 0), str)

\* the word is negative as a signed 32-bit integer
IsNegative(word) == word.hi >= 32768

\* Math.abs of the signed 32-bit integer, as an unsigned word (2^31 included)
Abs(word) == IF IsNegative(word) THEN MinusWord(Word(0, 0), word) ELSE word

\* word % n of an unsigned word, for 0 < n < 2^15
Mod(word, n) == ((word.hi % n) * (65536 % n) + (word.lo % n)) % n

\* a partition that takes the hash modulo the count without Math.abs: the
\* remainder of a negative hash is negative in JavaScript
HashPartition_Signed(c, random) ==
  IF c.key = <<>> THEN random
  ELSE LET hash == simpleHash(c.key)
       IN IF IsNegative(hash) THEN 0 - Mod(Abs(hash), c.partitionCount)
          ELSE Mod(hash, c.partitionCount)

\* HashPartitioner.partition; random is Math.floor(Math.random() * partitionCount)
HashPartition(c, random) ==
  IF c.key = <<>> THEN random
  ELSE Mod(Abs(simpleHash(c.key)), c.partitionCount)

\* the running sums of a list
RECURSIVE Cumulate(_, _)
Cumulate(weights, sum) ==
  IF weights = <<>> THEN <<>>
  ELSE <<sum + Head(weights)>> \o Cumulate(Tail(weights), sum + Head(weights))

\* new WeightedPartitioner(weights)
WeightedPartitioner(weights) ==
  IF Len(weights) = 0
  THEN [NoPartitioner EXCEPT !.kind = "WeightedPartitioner",
                             !.error = "Weights array cannot be empty"]
  ELSE [NoPartitioner EXCEPT !.kind = "WeightedPartitioner", !.weights = weights,
                             !.cumulativeWeights = Cumulate(weights, 0)]

\* a partition whose loop runs over all the weights
WeightedPartition_AllBuckets(p, c, random2) ==
  LET hits == {i \in 1..Len(p.cumulativeWeights) : random2 <= 2 * p.cumulativeWeights[i]}
  IN IF hits = {} THEN 0 ELSE (CHOOSE i \in hits : \A j \in hits : i <= j) - 1

\* WeightedPartitioner.partition; random2 is twice Math.random() * totalWeight
WeightedPartition(p, c, random2) ==
  LET hits == {i \in 1..Len(p.cumulativeWeights) :
                 i <= c.partitionCount /\ random2 <= 2 * p.cumulativeWeights[i]}
  IN IF hits = {} THEN 0 ELSE (CHOOSE i \in hits : \A j \in hits : i <= j) - 1

\* the keys and the lists of weights of the callers
CharCodes == {1, 97, 65535}
Keys == UNION {[1..n -> CharCodes] : n \in 1..MaxKeyLen}
Weights == {1, 3}
WeightLists == UNION {[1..n -> Weights] : n \in 0..MaxWeights}

RoundRobinPartition ==
  /\ partitioner.kind = "RoundRobinPartitioner" /\ Len(picked) < MaxCalls
  /\ LET rr == RoundRobin(partitioner.counter, partitionerContext.partitionCount)
     IN /\ partitioner' = [partitioner EXCEPT !.counter = rr.counter]
        /\ picked' = Append(picked, Pick("partition", partitionerContext, 0, rr.partition))
  /\ UNCHANGED <<partitionerContext, routerVars, metadataVars, tmVars, prodVars, consVars>>

RoundRobinReset ==
  /\ partitioner.kind = "RoundRobinPartitioner" /\ Len(picked) < MaxCalls
  /\ partitioner' = reset(partitioner)
  /\ picked' = Append(picked, Pick("reset", partitionerContext, 0, 0))
  /\ UNCHANGED <<partitionerContext, routerVars, metadataVars, tmVars, prodVars, consVars>>

\* Math.random is drawn only for a missing key
HashPartitionCall ==
  /\ partitioner.kind = "HashPartitioner" /\ Len(picked) < MaxCalls
  /\ \E random \in (IF partitionerContext.key = <<>>
                     THEN 0..(partitionerContext.partitionCount - 1) ELSE {0}) :
       picked' = Append(picked, Pick("partition", partitionerContext, random,
                                     HashPartition(partitionerContext, random)))
  /\ UNCHANGED <<partitioner, partitionerContext, routerVars, metadataVars, tmVars, prodVars,
                 consVars>>

\* the caller passes any partitionCount; random2 ranges over the draws
\* below the total weight, in halves. The partitioner keeps nothing between
\* calls, and only the latest call is recorded.
WeightedPartitionCall ==
  /\ partitioner.kind = "WeightedPartitioner" /\ partitioner.error = ""
  /\ \E partitionCount \in 1..MaxPartitionCount :
       \E random2 \in 0..(2 * partitioner.cumulativeWeights[Len(partitioner.weights)] - 1) :
         LET c == Context(<<>>, partitionCount)
         IN /\ partitionerContext' = c
            /\ picked' = <<Pick("partition", c, random2,
                              WeightedPartition(partitioner, c, random2))>>
  /\ UNCHANGED <<partitioner, routerVars, metadataVars, tmVars, prodVars, consVars>>

\* ------------------------------------------------------------------------
\* A MetadataManager and its caller
\* ------------------------------------------------------------------------
\* an object by its own keys: no metadata given, no headers made
NoMetadata == [defined |-> {}]
NoHeaders == [defined |-> {}]

\* a string as its UTF-16 code units
Text(chars) == [type |-> "string", chars |-> chars]
\* a number with at most one decimal: whole.tenth
Number(whole, tenth) == [type |-> "number", whole |-> whole, tenth |-> tenth]
NaN == [type |-> "NaN"]
\* a Date by its time value, in milliseconds since the epoch
Date(time) == [type |-> "date", time |-> time]

\* the decimal digits of a natural number, as code units
RECURSIVE Digits(_)
Digits(n) == IF n < 10 THEN <<48 + n>> ELSE Digits(n \div 10) \o <<48 + (n % 10)>>

\* the last `width` digits of n, zero-padded
RECURSIVE Pad(_, _)
Pad(n, width) == IF width = 0 THEN <<>> ELSE Pad(n \div 10, width - 1) \o <<48 + (n % 10)>>

\* Number.prototype.toString
NumberToString(value) ==
  Digits(value.whole) \o (IF value.tenth = 0 THEN <<>> ELSE <<46, 48 + value.tenth>>)

\* the value of the leading decimal digits of str, -1 when it has none
RECURSIVE LeadingDigits(_, _)
LeadingDigits(str, acc) ==
  IF str # <<>> /\ Head(str) \in 48..57
  THEN LeadingDigits(Tail(str), (IF acc < 0 THEN 0 ELSE 10 * acc) + (Head(str) - 48))
  ELSE acc

\* parseInt(str, 10)
parseInt(str) ==
  LET whole == LeadingDigits(str, -1) IN IF whole < 0 THEN NaN ELSE Number(whole, 0)

\* Date.prototype.toISOString, for the dates of January 1970:
\* 1970-01-DDTHH:MM:SS.mmmZ
toISOString(date) ==
  LET ms == date.time
  IN <<49, 57, 55, 48, 45, 48, 49, 45>> \o Pad(1 + (ms \div 86400000), 2) \o <<84>>
     \o Pad((ms \div 3600000) % 24, 2) \o <<58>> \o Pad((ms \div 60000) % 60, 2) \o <<58>>
     \o Pad((ms \div 1000) % 60, 2) \o <<46>> \o Pad(ms % 1000, 3) \o <<90>>

\* new Date(str) of such a string
NewDate(str) ==
  LET field(from, to) == LeadingDigits(SubSeq(str, from, to), -1)
  IN Date((((field(9, 10) - 1) * 24 + field(12, 13)) * 60 + field(15, 16)) * 60000
          + field(18, 19) * 1000 + field(21, 23))

\* the code unit is half of a surrogate pair
IsSurrogate(unit) == unit \in 55296..57343

\* Buffer.from(str): UTF-8, with U+FFFD for a surrogate that has no partner
RECURSIVE BufferFrom(_)
BufferFrom(str) ==
  IF str = <<>> THEN <<>>
  ELSE LET unit == IF IsSurrogate(Head(str)) THEN 65533 ELSE Head(str)
       IN (IF unit < 128 THEN <<unit>>
           ELSE IF unit < 2048 THEN <<192 + (unit \div 64), 128 + (unit % 64)>>
           ELSE <<224 + (unit \div 4096), 128 + ((unit \div 64) % 64), 128 + (unit % 64)>>)
          \o BufferFrom(Tail(str))

\* Buffer.prototype.toString(): UTF-8 read back into code units
RECURSIVE BufferToString(_)
BufferToString(bytes) ==
  IF bytes = <<>> THEN <<>>
  ELSE IF bytes[1] < 128 THEN <<bytes[1]>> \o BufferToString(Tail(bytes))
  ELSE IF bytes[1] < 224
    THEN <<(bytes[1] - 192) * 64 + (bytes[2] - 128)>>
         \o BufferToString(SubSeq(bytes, 3, Len(bytes)))
  ELSE <<(bytes[1] - 224) * 4096 + (bytes[2] - 128) * 64 + (bytes[3] - 128)>>
       \o BufferToString(SubSeq(bytes, 4, Len(bytes)))

\* the fields of an EnhancedMessageMetadata the callers set, but customHeaders
MetadataKeys == {"messageId", "correlationId", "messageType", "timestamp", "priority", "ttl"}
\* all of them, in the order the callers write them in the object literal
MetadataOrder ==
  <<"messageId", "correlationId", "messageType", "timestamp", "priority", "ttl",
    "customHeaders">>

\* a Record<string, string>: its entries [key, value] in insertion order, the
\* keys distinct
Map(entries) == [type |-> "object", entries |-> entries]
Entry(key, value) == [key |-> key, value |-> value]

\* an EnhancedMessageMetadata
EnhancedMessageMetadata(messageId, correlationId, messageType, timestamp, priority, ttl, customHeaders) ==
  [defined |-> MetadataKeys \cup {"customHeaders"},
   values |-> [messageId |-> messageId, correlationId |-> correlationId,
               messageType |-> messageType, timestamp |-> timestamp,
               priority |-> priority, ttl |-> ttl, customHeaders |-> customHeaders]]

\* metadata[key], undefined for a key the object does not have
Get(metadata, key) == IF key \in metadata.defined THEN metadata.values[key] ELSE Undefined

\* n <= value, of a number
AtLeast(value, n) == value.whole >= n
\* n < value
Above(value, n) == value.whole > n \/ (value.whole = n /\ value.tenth > 0)

\* MetadataManager.validateMetadata(metadata).isValid
validateMetadata(metadata) ==
  /\ Get(metadata, "correlationId") \notin {Undefined, Text(<<>>)}
  /\ Get(metadata, "messageType") \notin {Undefined, Text(<<>>)}
  /\ Get(metadata, "priority") # Undefined =>
       ~(~AtLeast(Get(metadata, "priority"), 0) \/ Above(Get(metadata, "priority"), 10))
  /\ Get(metadata, "ttl") # Undefined => Above(Get(metadata, "ttl"), 0)

\* the keys of the custom headers, and their code units
CustomKeys == {"a", "b"}
CharsOf(key) == IF key = "a" THEN <<97>> ELSE <<98>>

\* JSON.stringify of a Record<string, string> whose strings need no escape:
\* {"key":"value",...}
RECURSIVE JsonMembers(_)
JsonMembers(entries) ==
  IF entries = <<>> THEN <<>>
  ELSE <<34>> \o CharsOf(Head(entries).key) \o <<34, 58, 34>> \o Head(entries).value \o <<34>>
       \o (IF Len(entries) > 1 THEN <<44>> ELSE <<>>) \o JsonMembers(Tail(entries))
JsonStringify(value) == <<123>> \o JsonMembers(value.entries) \o <<125>>

\* MetadataManager.defaultTransform
defaultTransform(value) ==
  IF value.type = "string" THEN value.chars ELSE JsonStringify(value)

\* the transform of setupDefaultTransforms for the key, else defaultTransform
Transform(key, value) ==
  CASE key = "timestamp" -> toISOString(value)
    [] key \in {"priority", "ttl", "retryCount"} -> NumberToString(value)
    [] OTHER -> defaultTransform(value)

\* a header name: its reserved prefix and the key behind it
HeaderName(prefix, key) == [prefix |-> prefix, key |-> key]
\* a Record<string, Buffer>: its entries [name, value] in insertion order
Header(name, value) == [name |-> name, value |-> value]
Headers(entries) ==
  [defined |-> {entries[i].name : i \in 1..Len(entries)}, entries |-> entries]

\* MetadataManager.metadataToHeaders
metadataToHeaders(metadata) ==
  LET written == SelectSeq(MetadataOrder,
                           LAMBDA key : key \in metadata.defined
                                        /\ metadata.values[key] # Undefined)
      custom == IF Get(metadata, "customHeaders") = Undefined THEN <<>>
                ELSE metadata.values["customHeaders"].entries
  IN Headers([i \in 1..Len(written) |->
                Header(HeaderName("x-msg-", written[i]),
                       BufferFrom(Transform(written[i], metadata.values[written[i]])))]
             \o [i \in 1..Len(custom) |->
                   Header(HeaderName("x-custom-", custom[i].key), BufferFrom(custom[i].value))])

\* MetadataManager.setMetadataValue: the value stored under the key
setMetadataValue(key, value) ==
  CASE key = "timestamp" -> NewDate(value)
    [] key \in {"priority", "ttl", "retryCount"} -> parseInt(value)
    [] OTHER -> Text(value)

\* MetadataManager.headersToMetadata: the x-custom- headers are collected
\* apart and assigned to customHeaders at the end, if there are any
headersToMetadata(headers) ==
  LET read == SelectSeq(headers.entries, LAMBDA header : header.name.prefix = "x-msg-")
      custom == SelectSeq(headers.entries, LAMBDA header : header.name.prefix = "x-custom-")
      customHeaders == [i \in 1..Len(custom) |->
                          Entry(custom[i].name.key, BufferToString(custom[i].value))]
      keys == {read[i].name.key : i \in 1..Len(read)}
      valueOf(key) == (CHOOSE header \in {read[i] : i \in 1..Len(read)} :
                         header.name.key = key).value
  IN [defined |-> keys \cup (IF custom # <<>> THEN {"customHeaders"} ELSE {}),
      values |-> [key \in keys \cup (IF custom # <<>> THEN {"customHeaders"} ELSE {}) |->
                    IF key = "customHeaders" /\ custom # <<>> THEN Map(customHeaders)
                    ELSE setMetadataValue(key, BufferToString(valueOf(key)))]]

\* the metadata the callers build
Ids == {Undefined, Text(<<109>>), Text(<<109, 233, 8364>>), Text(<<55296>>)}
MessageTypes == {Undefined, Text(<<>>), Text(<<101>>)}
Timestamps == {Date(0), Date(1500), Date(86399999), Date(1990861001)}
PriorityValues ==
  {Undefined, Number(0, 0), Number(7, 5), Number(8, 0), Number(10, 0), Number(11, 0)}
TtlValues == {Undefined, Number(0, 0), Number(0, 5), Number(1, 0), Number(3600, 0)}
CustomHeaders ==
  {Undefined, Map(<<>>), Map(<<Entry("a", <<114>>)>>),
   Map(<<Entry("b", <<>>), Entry("a", <<114, 233>>)>>)}

\* a header that is not of the manager's making
OtherHeader == Header(HeaderName("", "other-header"), BufferFrom(<<105>>))

MetadataToHeaders ==
  /\ messageMetadata # NoMetadata /\ kafkaHeaders = NoHeaders
  /\ kafkaHeaders' = metadataToHeaders(messageMetadata)
  /\ UNCHANGED <<messageMetadata, decoded, routerVars, partitionerVars, tmVars, prodVars,
                 consVars>>

\* somebody else adds a header of theirs to the message
AddOtherHeader ==
  /\ kafkaHeaders # NoHeaders /\ decoded = NoMetadata
  /\ OtherHeader.name \notin kafkaHeaders.defined
  /\ kafkaHeaders' = Headers(Append(kafkaHeaders.entries, OtherHeader))
  /\ UNCHANGED <<messageMetadata, decoded, routerVars, partitionerVars, tmVars, prodVars,
                 consVars>>

HeadersToMetadata ==
  /\ kafkaHeaders # NoHeaders /\ decoded = NoMetadata
  /\ decoded' = headersToMetadata(kafkaHeaders)
  /\ UNCHANGED <<messageMetadata, kafkaHeaders, routerVars, partitionerVars, tmVars, prodVars,
                 consVars>>

\* sendMessage and sendBatch of short batches under every choice of
\* validation, schema, serializer and partitioner
ProducerNext ==
  \/ SendMessageCall
  \/ SendMessageLookedUp
  \/ SendMessageSent
  \/ SendBatchCall
  \/ SendBatchLookedUp
  \/ SendBatchSent
  \/ SendBatchLingered
  \/ SetValidationEnabled
  \/ SetPartitioner

\* sendBatch of long batches under every max batch size and linger, which
\* updateConfiguration changes at any moment, as it does the compression and
\* the timeout
BatchNext ==
  \/ SendBatchCallLong
  \/ SendBatchSent
  \/ SendBatchLingered
  \/ UpdateConfiguration(BatchingUpdates \cup TransportUpdates)

\* sendInTransaction, and the transaction manager as it alone drives it
PipelineNext ==
  \/ SendInTransactionCall
  \/ SendInTransactionReturned
  \/ ExecuteBegun(Caller)
  \/ ExecuteSent(Caller)
  \/ ExecuteOperated(Caller)
  \/ ExecuteCommitted(Caller)
  \/ ExecuteRolledBack(Caller)
  \/ BeginResume(Caller)
  \/ SendResume(Caller)
  \/ CommitGotTransaction(Caller)
  \/ CommitResume(Caller)
  \/ RollbackGotTransaction(Caller)
  \/ RollbackResume(Caller)

\* sendMessage with and without a router, whose rules change at any moment
RoutingNext ==
  \/ SendMessageCall
  \/ SendMessageLookedUp
  \/ SendMessageSent
  \/ AddRoutingRule
  \/ RemoveRoutingRule

\* sendMessage and sendBatch of a producer whose routing rules are added and
\* removed at any moment; its batches fit in one chunk, so that no linger
\* timer is set
RoutedBatchNext ==
  \/ SendMessageCall
  \/ SendMessageLookedUp
  \/ SendMessageSent
  \/ SendBatchCallRouted
  \/ SendBatchLookedUp
  \/ SendBatchSent
  \/ AddRoutingRule
  \/ RemoveRoutingRule

\* handleMessage one delivery at a time, while signals arrive and the
\* processed ids are cleared at any moment
ConsumerNext ==
  \/ Deliver
  \/ Processed
  \/ Signal
  \/ Stop
  \/ Disconnected
  \/ ClearProcessedEventIds

\* a router whose rules are added, removed, updated and cleared at any
\* moment between calls of route
RouterNext ==
  \/ AddRule
  \/ RemoveRule
  \/ UpdateRule
  \/ ClearRules
  \/ Route

\* a MessageRouter whose caller adds rules under any id
RouterIdsNext ==
  \/ AddRule
  \/ AddRuleAgain
  \/ RemoveRule
  \/ UpdateRule
  \/ Route

\* one RoundRobinPartitioner called and reset in any order
RoundRobinNext ==
  \/ RoundRobinPartition
  \/ RoundRobinReset

\* a metadata is written to headers, and the headers are read back
MetadataNext ==
  \/ MetadataToHeaders
  \/ AddOtherHeader
  \/ HeadersToMetadata

\* a manager and a producer as constructed, nobody calling either
Init ==
  /\ activeTransaction = NULL
  /\ stack = [t \in Tasks |-> <<>>]
  /\ trace = [t \in Tasks |-> <<>>]
  /\ result = [t \in Tasks |-> NoResult]
  /\ producer = DefaultProducer
  /\ call = NoCall
  /\ net = <<>>
  /\ sent = NoCall
  /\ consumer = MessageConsumer
  /\ delivery = NoDelivery
  /\ handled = <<>>
  /\ messageRouter = MessageRouter("default-topic")
  /\ rulesAdded = <<>>
  /\ lastRoute = NoRoute
  /\ partitioner = NoPartitioner
  /\ partitionerContext = NoContext
  /\ picked = <<>>
  /\ messageMetadata = NoMetadata
  /\ kafkaHeaders = NoHeaders
  /\ decoded = NoMetadata

\* a MetadataManager and a metadata some caller built
MetadataInit ==
  /\ activeTransaction = NULL
  /\ stack = [t \in Tasks |-> <<>>]
  /\ trace = [t \in Tasks |-> <<>>]
  /\ result = [t \in Tasks |-> NoResult]
  /\ producer = DefaultProducer
  /\ call = NoCall
  /\ net = <<>>
  /\ sent = NoCall
  /\ consumer = MessageConsumer
  /\ delivery = NoDelivery
  /\ handled = <<>>
  /\ messageRouter = MessageRouter("default-topic")
  /\ rulesAdded = <<>>
  /\ lastRoute = NoRoute
  /\ partitioner = NoPartitioner
  /\ partitionerContext = NoContext
  /\ picked = <<>>
  /\ messageMetadata \in
       {EnhancedMessageMetadata(messageId, correlationId, messageType, timestamp, priority, ttl,
                                customHeaders) :
          messageId \in Ids, correlationId \in Ids, messageType \in MessageTypes,
          timestamp \in Timestamps, priority \in PriorityValues, ttl \in TtlValues,
          customHeaders \in CustomHeaders}
  /\ kafkaHeaders = NoHeaders
  /\ decoded = NoMetadata

\* a fresh RoundRobinPartitioner, and a caller with some partitionCount
RoundRobinInit ==
  /\ activeTransaction = NULL
  /\ stack = [t \in Tasks |-> <<>>]
  /\ trace = [t \in Tasks |-> <<>>]
  /\ result = [t \in Tasks |-> NoResult]
  /\ producer = DefaultProducer
  /\ call = NoCall
  /\ net = <<>>
  /\ sent = NoCall
  /\ consumer = MessageConsumer
  /\ delivery = NoDelivery
  /\ handled = <<>>
  /\ messageRouter = MessageRouter("default-topic")
  /\ rulesAdded = <<>>
  /\ lastRoute = NoRoute
  /\ partitioner = RoundRobinPartitioner
  /\ partitionerContext \in {Context(<<>>, n) : n \in 1..MaxPartitionCount}
  /\ picked = <<>>
  /\ messageMetadata = NoMetadata
  /\ kafkaHeaders = NoHeaders
  /\ decoded = NoMetadata

\* a HashPartitioner, and a caller with some key and partitionCount
HashInit ==
  /\ activeTransaction = NULL
  /\ stack = [t \in Tasks |-> <<>>]
  /\ trace = [t \in Tasks |-> <<>>]
  /\ result = [t \in Tasks |-> NoResult]
  /\ producer = DefaultProducer
  /\ call = NoCall
  /\ net = <<>>
  /\ sent = NoCall
  /\ consumer = MessageConsumer
  /\ delivery = NoDelivery
  /\ handled = <<>>
  /\ messageRouter = MessageRouter("default-topic")
  /\ rulesAdded = <<>>
  /\ lastRoute = NoRoute
  /\ partitioner = HashPartitioner
  /\ partitionerContext \in {Context(key, n) : key \in Keys \cup {<<>>},
                                                 n \in 1..MaxPartitionCount}
  /\ picked = <<>>
  /\ messageMetadata = NoMetadata
  /\ kafkaHeaders = NoHeaders
  /\ decoded = NoMetadata

\* a WeightedPartitioner constructed from some list of weights
WeightedInit ==
  /\ activeTransaction = NULL
  /\ stack = [t \in Tasks |-> <<>>]
  /\ trace = [t \in Tasks |-> <<>>]
  /\ result = [t \in Tasks |-> NoResult]
  /\ producer = DefaultProducer
  /\ call = NoCall
  /\ net = <<>>
  /\ sent = NoCall
  /\ consumer = MessageConsumer
  /\ delivery = NoDelivery
  /\ handled = <<>>
  /\ messageRouter = MessageRouter("default-topic")
  /\ rulesAdded = <<>>
  /\ lastRoute = NoRoute
  /\ partitioner \in {WeightedPartitioner(weights) : weights \in WeightLists}
  /\ partitionerContext = NoContext
  /\ picked = <<>>
  /\ messageMetadata = NoMetadata
  /\ kafkaHeaders = NoHeaders
  /\ decoded = NoMetadata

\* as Init, for every producer of the default linger whose max batch size
\* the longest of the batches sent exceeds
ProducerInit ==
  /\ activeTransaction = NULL
  /\ stack = [t \in Tasks |-> <<>>]
  /\ trace = [t \in Tasks |-> <<>>]
  /\ result = [t \in Tasks |-> NoResult]
  /\ producer \in {p \in Producers :
                     p.batching = [DefaultProducer.batching
                                     EXCEPT !.maxBatchSize = MaxMixedItems - 1]}
  /\ call = NoCall
  /\ net = <<>>
  /\ sent = NoCall
  /\ consumer = MessageConsumer
  /\ delivery = NoDelivery
  /\ handled = <<>>
  /\ messageRouter = MessageRouter("default-topic")
  /\ rulesAdded = <<>>
  /\ lastRoute = NoRoute
  /\ partitioner = NoPartitioner
  /\ partitionerContext = NoContext
  /\ picked = <<>>
  /\ messageMetadata = NoMetadata
  /\ kafkaHeaders = NoHeaders
  /\ decoded = NoMetadata

\* as Init, for every producer that differs from the default one in its
\* batching only
BatchInit ==
  /\ activeTransaction = NULL
  /\ stack = [t \in Tasks |-> <<>>]
  /\ trace = [t \in Tasks |-> <<>>]
  /\ result = [t \in Tasks |-> NoResult]
  /\ producer \in {p \in Producers :
                     [p EXCEPT !.batching = DefaultProducer.batching] = DefaultProducer}
  /\ call = NoCall
  /\ net = <<>>
  /\ sent = NoCall
  /\ consumer = MessageConsumer
  /\ delivery = NoDelivery
  /\ handled = <<>>
  /\ messageRouter = MessageRouter("default-topic")
  /\ rulesAdded = <<>>
  /\ lastRoute = NoRoute
  /\ partitioner = NoPartitioner
  /\ partitionerContext = NoContext
  /\ picked = <<>>
  /\ messageMetadata = NoMetadata
  /\ kafkaHeaders = NoHeaders
  /\ decoded = NoMetadata

\* as Init, for every producer of JSON payloads with or without a router,
\* with or without a partitioner
RoutingInit ==
  /\ activeTransaction = NULL
  /\ stack = [t \in Tasks |-> <<>>]
  /\ trace = [t \in Tasks |-> <<>>]
  /\ result = [t \in Tasks |-> NoResult]
  /\ producer \in {[DefaultProducer EXCEPT !.schema = "json", !.router = r, !.partitioner = p] :
                     r \in {NoRouter, MessageRouter("default-topic")},
                     p \in {"none", "roundRobin"}}
  /\ call = NoCall
  /\ net = <<>>
  /\ sent = NoCall
  /\ consumer = MessageConsumer
  /\ delivery = NoDelivery
  /\ handled = <<>>
  /\ messageRouter = MessageRouter("default-topic")
  /\ rulesAdded = <<>>
  /\ lastRoute = NoRoute
  /\ partitioner = NoPartitioner
  /\ partitionerContext = NoContext
  /\ picked = <<>>
  /\ messageMetadata = NoMetadata
  /\ kafkaHeaders = NoHeaders
  /\ decoded = NoMetadata

\* as Init, for a producer initialized with and without enableTransactions
PipelineInit ==
  /\ activeTransaction = NULL
  /\ stack = [t \in Tasks |-> <<>>]
  /\ trace = [t \in Tasks |-> <<>>]
  /\ result = [t \in Tasks |-> NoResult]
  /\ producer \in {[DefaultProducer EXCEPT !.transactions = enabled] : enabled \in BOOLEAN}
  /\ call = NoCall
  /\ net = <<>>
  /\ sent = NoCall
  /\ consumer = MessageConsumer
  /\ delivery = NoDelivery
  /\ handled = <<>>
  /\ messageRouter = MessageRouter("default-topic")
  /\ rulesAdded = <<>>
  /\ lastRoute = NoRoute
  /\ partitioner = NoPartitioner
  /\ partitionerContext = NoContext
  /\ picked = <<>>
  /\ messageMetadata = NoMetadata
  /\ kafkaHeaders = NoHeaders
  /\ decoded = NoMetadata

\* TransactionManager under overlapping calls
Spec == Init /\ [][TMNext]_vars

\* TransactionManager under calls made one after the other
SpecSeq == Init /\ [][SeqNext]_vars

\* MessageProducer: one sendMessage or sendBatch at a time, its configuration
\* changed at any moment
SpecProducer == ProducerInit /\ [][ProducerNext]_vars

\* MessageProducer as in SpecProducer, where every broker send is answered
\* and every linger timer fires; nothing is assumed of the lookup of the
\* partition count, which may never complete
SpecLookup ==
  /\ ProducerInit /\ [][ProducerNext]_vars
  /\ WF_vars(SendMessageSent) /\ WF_vars(SendBatchSent) /\ WF_vars(SendBatchLingered)

\* MessageProducer as in SpecBatch, where every broker send is answered and
\* every linger timer fires
SpecBatchAnswered ==
  /\ BatchInit /\ [][BatchNext]_vars
  /\ WF_vars(SendBatchSent) /\ WF_vars(SendBatchLingered)

\* MessageProducer: sendBatch of long batches, its batching changed at any moment
SpecBatch == BatchInit /\ [][BatchNext]_vars

\* MessageProducer: sendInTransaction
SpecPipeline == PipelineInit /\ [][PipelineNext]_vars

\* RoundRobinPartitioner
SpecRoundRobin == RoundRobinInit /\ [][RoundRobinNext]_vars

\* HashPartitioner
SpecHash == HashInit /\ [][HashPartitionCall]_vars

\* WeightedPartitioner
SpecWeighted == WeightedInit /\ [][WeightedPartitionCall]_vars

\* MetadataManager
SpecMetadata == MetadataInit /\ [][MetadataNext]_vars

\* MessageRouter, rule ids reused
SpecRouterIds == Init /\ [][RouterIdsNext]_vars

\* MessageRouter
SpecRouter == Init /\ [][RouterNext]_vars

\* MessageConsumer
SpecConsumer == Init /\ [][ConsumerNext]_vars

\* MessageProducer: sendMessage under routing
SpecRouting == RoutingInit /\ [][RoutingNext]_vars

\* MessageProducer: sendMessage and sendBatch with or without a router, its
\* rules changed at any moment
SpecRoutedBatch == RoutingInit /\ [][RoutedBatchNext]_vars

\* ------------------------------------------------------------------------
\* Properties of TransactionManager
\* ------------------------------------------------------------------------
\* the calls that have settled: each caller's latest one, and the call an
\* executeTransaction has awaited
SettledFrames ==
  {f \in {result[t] : t \in Tasks}
           \cup UNION {{stack[t][i] : i \in 1..Len(stack[t])} : t \in Tasks} :
     f.pc = "settled" /\ f.op # "none"}

\* C1: at most one transaction is ever active under every interleaving: a
\* beginTransaction that succeeds never assigns its id over an active id, so
\* of two begins that overlap at most one succeeds.
C1_BeginNeverOverwrites ==
  \A f \in SettledFrames :
    f.op = "begin" /\ f.out.status = "resolved" => f.out.replaced = NULL

\* C2: a commitTransaction or rollbackTransaction called with a transaction
\* active leaves none active as it settles, whether the broker acknowledged
\* or failed; when it failed, the call rejects with the broker's own error.
C2_ClearedWhenSettled ==
  \A f \in SettledFrames :
    f.op \in {"commit", "rollback"} /\ Truthy(f.before) =>
      /\ f.out.after = NULL
      /\ f.out.status = "rejected" =>
           /\ f.out.thrown = "Error"
           /\ f.out.error \in (IF f.op = "commit"
                               THEN {BrokerTransactionError, BrokerCommitError}
                               ELSE {BrokerTransactionError, BrokerAbortError})

\* a commit the broker failed has settled
C2_Witness ==
  \E t \in Tasks :
    /\ result[t].op = "commit" /\ Truthy(result[t].before)
    /\ result[t].out.status = "rejected" /\ result[t].out.error = BrokerCommitError

\* C3: beginTransaction called while a transaction is active rejects with an
\* error naming the active id, calls the broker not at all and leaves the
\* active id as it was.
C3_BeginWhileActive ==
  \A t \in Tasks :
    result[t].op = "begin" /\ Truthy(result[t].before) =>
      /\ result[t].out.status = "rejected"
      /\ result[t].out.error = AlreadyActive(result[t].before)
      /\ trace[t] = <<>>
      /\ result[t].out.after = result[t].before

\* a begin made while a transaction was active has settled
C3_Witness ==
  \E t \in Tasks :
    result[t].op = "begin" /\ Truthy(result[t].before) /\ result[t].out.status = "rejected"

\* C4: with no transaction active, commitTransaction, rollbackTransaction and
\* sendInTransaction of any list, the empty one included, reject, call the
\* broker not at all and leave the manager inactive.
C4_RejectWhenInactive ==
  /\ \A f \in SettledFrames :
       f.op \in {"commit", "rollback", "send"} /\ ~Truthy(f.before) =>
         /\ f.out.status = "rejected"
         /\ f.out.error = (CASE f.op = "commit" -> NoActiveToCommit
                             [] f.op = "rollback" -> NoActiveToRollback
                             [] OTHER -> NoActiveTransaction)
         /\ f.out.after = NULL
  /\ \A t \in Tasks :
       result[t].op \in {"commit", "rollback", "send"} /\ ~Truthy(result[t].before) =>
         trace[t] = <<>>

\* sendInTransaction of the empty list with no transaction active has settled
C4_Witness ==
  /\ result[Caller].op = "send" /\ result[Caller].before = NULL
  /\ result[Caller].messages = <<>> /\ result[Caller].out.status = "rejected"

RECURSIVE Sum(_)
Sum(numbers) == IF numbers = <<>> THEN 0 ELSE Head(numbers) + Sum(Tail(numbers))

\* the calls of one kind among broker calls
Only(calls, kind) == SelectSeq(calls, LAMBDA c : c.call = kind)
\* the number of messages the send calls among broker calls carry
MessagesSent(calls) ==
  Sum([i \in 1..Len(Only(calls, "send")) |-> Len(Only(calls, "send")[i].messages)])

\* C5: when the operation passed to executeTransaction throws, the broker's
\* abort is invoked exactly once and executeTransaction rejects with a failure
\* result (success = false) whose error is the error the operation threw and
\* whose messageCount is the number of messages of the sender calls completed;
\* no transaction is active afterwards.
C5_OperationThrows ==
  \A t \in Tasks :
    result[t].op = "execute" /\ result[t].caught = "operation" =>
      /\ Len(Only(trace[t], "abort")) = 1
      /\ result[t].out.status = "rejected"
      /\ result[t].out.thrown = "TransactionResult"
      /\ result[t].out.success = FALSE
      /\ result[t].out.error = result[t].error
      /\ result[t].out.messageCount = Sum(result[t].sender)
      /\ result[t].out.after = NULL

C7_OneSendPerTopic ==
  \A t \in Tasks :
    LET f == IF Idle(t) THEN result[t] ELSE stack[t][1]
        calls == trace[t]
    IN f.op = "send" /\ Truthy(f.before) =>
         /\ \A i \in 1..Len(calls) :
              /\ calls[i].call = "send"
              /\ calls[i].messages # <<>>
              /\ calls[i].messages = SelectSeq(f.messages, LAMBDA m : m.topic = calls[i].topic)
         /\ \A i, j \in 1..Len(calls) : calls[i].topic = calls[j].topic => i = j
         /\ f.pc = "settled" /\ f.out.status = "resolved" =>
              {calls[i].topic : i \in 1..Len(calls)}
                = {f.messages[i].topic : i \in 1..Len(f.messages)}

\* a sendInTransaction of messages for topic-1, topic-2, topic-1 has resolved
C7_Witness ==
  /\ result[Caller].op = "send" /\ result[Caller].out.status = "resolved"
  /\ Len(result[Caller].messages) = 3
  /\ result[Caller].messages[1].topic = result[Caller].messages[3].topic
  /\ result[Caller].messages[1].topic # result[Caller].messages[2].topic
  /\ Len(trace[Caller]) = 2

\* ------------------------------------------------------------------------
\* Properties of MessageProducer
\* ------------------------------------------------------------------------
\* the schema configured rejects the payload of a settled sendMessage
SchemaRejects(f) == ~Validate(producer.schema, f.items[1].kind).isValid
\* the serializer configured makes a string of the payload
SerializesToString(f) ==
  /\ Serialize(producer.format, f.items[1]).ok
  /\ Serialize(producer.format, f.items[1]).text # "undefined"

C9_InvalidItemNoNetwork ==
  /\ sent.op = "sendBatch" /\ sent.validated
  /\ \E i \in 1..Len(sent.items) : ~Validate(producer.schema, sent.items[i].kind).isValid
  => sent.status = "rejected" /\ net = <<>>

RECURSIVE Flatten(_)
Flatten(lists) == IF lists = <<>> THEN <<>> ELSE Head(lists) \o Flatten(Tail(lists))

\* C10: a sendBatch of n valid items under max batch size k >= 1 whose sends
\* are all acknowledged issues exactly ceil(n/k) broker sends: each but the
\* last carries k messages, the last from 1 to k, and end to end they carry
\* the items in the order given.
C10_Chunks ==
  sent.op = "sendBatch" /\ sent.status = "resolved" /\ sent.chunkSize >= 1 =>
    LET n == Len(sent.items)
        k == sent.chunkSize
        sends == Only(net, "send")
        c == Len(sends)
        messages == Flatten([i \in 1..c |-> sends[i].messages])
    IN /\ c = (n + k - 1) \div k
       /\ \A i \in 1..(c - 1) : Len(sends[i].messages) = k
       /\ c > 0 => Len(sends[c].messages) \in 1..k
       /\ [i \in 1..Len(messages) |-> messages[i].value.of] = sent.items

\* a sendBatch of 7 items under max batch size 3 has resolved after sends of
\* 3, 3 and 1 messages
C10_Witness ==
  /\ sent.op = "sendBatch" /\ sent.status = "resolved"
  /\ Len(sent.items) = 7 /\ sent.chunkSize = 3
  /\ [i \in 1..Len(net) |-> Len(net[i].messages)] = <<3, 3, 1>>


\* C11: when the broker rejects the send of chunk i of a sendBatch, no send
\* is issued for a later chunk, the sends of chunks 1..i-1 stand as issued and
\* none is repeated, and sendBatch rejects with the broker's error as it is.
C11_FailedChunkEndsBatch ==
  \A f \in {call, sent} :
    f.op = "sendBatch" /\ f.failed > 0 =>
      LET sends == Only(net, "send")
          chunks == chunkMessages(f.messages, f.chunkSize)
      IN /\ Len(sends) = f.failed
         /\ \A i \in 1..Len(sends) : sends[i].messages = chunks[i]
         /\ f.pc = "settled" /\ f.status = "rejected" /\ f.error = BrokerSendError

\* the second of three chunks was rejected
C11_Witness ==
  /\ sent.op = "sendBatch" /\ sent.failed = 2 /\ sent.chunkCount = 3
  /\ sent.status = "rejected"

\* the rule of a router a payload is routed by: among the rules whose
\* condition holds of it, the one of highest priority and, of several, the
\* one added first
RoutedBy(router, k) ==
  {i \in 1..Len(router.rules) :
     /\ Condition(router.rules[i], k) = "true"
     /\ \A j \in 1..Len(router.rules) :
          Condition(router.rules[j], k) = "true" =>
            \/ router.rules[j].priority < router.rules[i].priority
            \/ router.rules[j].priority = router.rules[i].priority /\ i <= j}

\* C12: sendMessage sends to the target topic of the first rule of the router
\* that matches the payload, to the router's default topic when none does,
\* and to config.kafkaTopic when routing is disabled; a sendMessage that
\* resolves has issued exactly one broker send.
C12_RoutedTopic ==
  \A f \in {call, sent} :
    f.op = "sendMessage" =>
      LET sends == Only(net, "send")
          k == f.items[1].kind
          by == RoutedBy(f.router, k)
      IN /\ \A i \in 1..Len(sends) :
              sends[i].topic = (IF ~f.router.enabled THEN KafkaTopic
                                ELSE IF by = {} THEN f.router.defaultTopic
                                ELSE f.router.rules[CHOOSE i0 \in by : TRUE].targetTopic)
         /\ f.status = "resolved" => Len(sends) = 1

\* a payload that a rule of lower priority added first and a rule of higher
\* priority added later both match went to the topic of the latter
C12_Witness ==
  /\ sent.op = "sendMessage" /\ sent.status = "resolved"
  /\ Len(sent.router.rules) = 2
  /\ sent.router.rules[1].id = "vip-rule" /\ sent.router.rules[2].id = "premium-rule"
  /\ sent.items[1].kind = "object"
  /\ Only(net, "send")[1].topic = "vip-topic"

\* C13: the request sendMessage hands to the broker client carries topic,
\* compression, timeout and messages.
C13_SendCarriesTransport ==
  \A f \in {call, sent} :
    f.op = "sendMessage" =>
      \A i \in 1..Len(Only(net, "send")) :
        Only(net, "send")[i].keys = {"topic", "compression", "timeout", "messages"}

\* C14: sendInTransaction of a producer without a transaction manager
\* rejects at once: the operation is not invoked and the broker is not
\* called; with one, it resolves to what the operation returned whenever
\* executeTransaction resolves, and rejects whenever that rejects.
C14_SendInTransaction ==
  sent.op = "sendInTransaction" =>
    IF ~producer.transactions
    THEN /\ sent.status = "rejected" /\ sent.error = TransactionsNotEnabled
         /\ net = <<>> /\ trace[Caller] = <<>>
         /\ stack[Caller] = <<>> /\ result[Caller] = NoResult
    ELSE /\ result[Caller].op = "execute"
         /\ IF result[Caller].out.status = "resolved"
            THEN sent.status = "resolved" /\ sent.value = OperationResult
            ELSE sent.status = "rejected" /\ sent.thrown = result[Caller].out.thrown

\* a sendInTransaction whose operation sent messages has resolved
C14_Witness ==
  /\ sent.op = "sendInTransaction" /\ producer.transactions
  /\ sent.status = "resolved" /\ sent.value = OperationResult
  /\ result[Caller].out.messageCount > 0

\* C15: a sendBatch keeps, for all its chunks, the max batch size and the
\* linger delay that were in force when it was called, whatever
\* updateConfiguration does while it is suspended: it waits after each
\* chunk exactly when it has several chunks and that linger is positive,
\* and for that long.
C15_UpdateSparesBatchInFlight ==
  \A f \in {call, sent} :
    f.op = "sendBatch" /\ f.chunkCount > 0 =>
      /\ f.chunkSize = f.batching.maxBatchSize
      /\ \A i \in 1..Len(f.waited) : f.waited[i] = f.batching.lingerMs
      /\ f.status = "resolved" =>
           Len(f.waited) = IF f.chunkCount > 1 /\ f.batching.lingerMs > 0
                           THEN f.chunkCount ELSE 0

\* the handleMessage calls that were not ignored
Handlings ==
  {i \in 1..Len(handled) :
     handled[i].op = "handleMessage" /\ handled[i].classification # "IGNORED"}

\* the counters a call has incremented, each by how much
Increments(f) ==
  [counter \in DOMAIN NoMetrics |-> f.after.metrics[counter] - f.before.metrics[counter]]

OnlyCounted(f, counters) ==
  Increments(f) = [counter \in DOMAIN NoMetrics |-> IF counter \in counters THEN 1 ELSE 0]

\* C16: a message delivered while isShuttingDown is set changes no metric
\* and no processed id, does not reach processOrderEvent, and its
\* handleMessage returns without throwing.
C16_IgnoredWhileShuttingDown ==
  \A i \in 1..Len(handled) :
    handled[i].op = "handleMessage" /\ handled[i].before.isShuttingDown =>
      /\ handled[i].after = handled[i].before
      /\ ~handled[i].invoked
      /\ ~handled[i].threw
      /\ handled[i].classification = "IGNORED"

\* a valid event was delivered after the signal
C16_Witness ==
  \E i \in 1..Len(handled) :
    /\ handled[i].op = "handleMessage" /\ handled[i].before.isShuttingDown
    /\ handled[i].message.shape = "valid"
    /\ handled[i].before.metrics.totalMessages > 0

\* C17: a message handled with an empty payload, a payload that is not
\* JSON, or an event without a required field, with an amount that is not a
\* non-negative number or with no valid date is classified DLQ: it counts in
\* totalMessages and dlqMessages only, does not reach processOrderEvent,
\* leaves processedEventIds alone and does not throw, whether or not its id
\* has been processed before.
C17_InvalidIsDlq ==
  \A i \in Handlings :
    handled[i].message.shape \in InvalidShapes =>
      /\ handled[i].classification = "DLQ"
      /\ OnlyCounted(handled[i], {"totalMessages", "dlqMessages"})
      /\ ~handled[i].invoked
      /\ handled[i].after.processedEventIds = handled[i].before.processedEventIds
      /\ ~handled[i].threw

\* an invalid event whose id had been processed was handled
C17_Witness ==
  \E i \in Handlings :
    /\ handled[i].message.shape = "negative amount"
    /\ Str(handled[i].message.id) \in handled[i].before.processedEventIds
    /\ handled[i].classification = "DLQ"

\* the handlings of valid events with this id
HandlingsOf(id) ==
  {i \in Handlings : handled[i].message.shape = "valid" /\ handled[i].message.id = id}

\* processedEventIds was cleared between the end of call i and the end of call j
ClearedBetween(i, j) ==
  \E k \in (i + 1)..(j - 1) : handled[k].op = "clearProcessedEventIds"

\* C18: after a valid event was classified SUCCESS, and as long as
\* processedEventIds is not cleared, every handling of a valid event with
\* the same id is classified SKIP: it counts in totalMessages and
\* skippedMessages only, does not reach processOrderEvent and does not throw.
C18_SkipAfterSuccess ==
  \A id \in EventIds : \A i, j \in HandlingsOf(id) :
    i < j /\ handled[i].classification = "SUCCESS" /\ ~ClearedBetween(i, j) =>
      /\ handled[j].classification = "SKIP"
      /\ OnlyCounted(handled[j], {"totalMessages", "skippedMessages"})
      /\ ~handled[j].invoked
      /\ ~handled[j].threw

\* an event was processed, another one was, and the first was delivered again
C18_Witness ==
  \E i, j \in HandlingsOf("X") :
    /\ i + 1 < j /\ ~ClearedBetween(i, j)
    /\ handled[i].classification = "SUCCESS"
    /\ handled[j].classification = "SKIP"

\* C19: a handling that processOrderEvent fails is classified ERROR,
\* throws and leaves the event's id out of processedEventIds; and as long as
\* no handling of a valid event with some id was classified SUCCESS, every
\* handling of such an event reaches processOrderEvent and is classified
\* SUCCESS or ERROR, never SKIP or DLQ.
C19_ErrorIsRetried ==
  /\ \A i \in Handlings :
       handled[i].classification = "ERROR" =>
         /\ handled[i].threw /\ handled[i].invoked
         /\ Str(handled[i].message.id) \notin handled[i].after.processedEventIds
  /\ \A i \in Handlings : handled[i].threw => handled[i].classification = "ERROR"
  /\ \A id \in EventIds : \A j \in HandlingsOf(id) :
       (\A i \in HandlingsOf(id) : i < j => handled[i].classification # "SUCCESS") =>
         /\ handled[j].invoked
         /\ handled[j].classification \in {"SUCCESS", "ERROR"}

\* an event failed twice and succeeded at its third delivery
C19_Witness ==
  /\ Len(handled) = 3
  /\ \A i \in 1..3 : i \in HandlingsOf("X")
  /\ handled[1].classification = "ERROR" /\ handled[2].classification = "ERROR"
  /\ handled[3].classification = "SUCCESS"

\* the counter of a classification
CounterOf(classification) ==
  CASE classification = "SUCCESS" -> "processedMessages"
    [] classification = "SKIP" -> "skippedMessages"
    [] classification = "ERROR" -> "errorMessages"
    [] OTHER -> "dlqMessages"

\* C20: every handled message counts once in totalMessages and once in the
\* counter of its classification, and in no other; and while no message is
\* being handled, getMetrics reports a totalMessages that is the sum of the
\* four other counters.
C20_CountersAddUp ==
  /\ \A i \in Handlings :
       OnlyCounted(handled[i], {"totalMessages", CounterOf(handled[i].classification)})
  /\ delivery = NoDelivery =>
       getMetrics(consumer).totalMessages =
         getMetrics(consumer).processedMessages + getMetrics(consumer).skippedMessages
           + getMetrics(consumer).errorMessages + getMetrics(consumer).dlqMessages

\* no counter of the metrics goes down in this step
MetricsGrow ==
  \A counter \in DOMAIN NoMetrics : consumer'.metrics[counter] >= consumer.metrics[counter]

\* C21, as stated: no step removes an id from processedEventIds and no
\* step decreases a metric counter.
C21_AsClaimed ==
  [][consumer.processedEventIds \subseteq consumer'.processedEventIds /\ MetricsGrow]_vars

\* C21: no step decreases a metric counter, and no step removes an id from
\* processedEventIds but a call of clearProcessedEventIds, which empties it.
C21_OnlyClearRemoves ==
  [][/\ MetricsGrow
     /\ \/ consumer.processedEventIds \subseteq consumer'.processedEventIds
        \/ /\ consumer'.processedEventIds = {}
           /\ Len(handled') = Len(handled) + 1
           /\ handled'[Len(handled')].op = "clearProcessedEventIds"]_vars

\* processed ids were cleared, and an event was processed after that
C21_Witness ==
  /\ \E i \in 1..Len(handled) :
       /\ handled[i].op = "clearProcessedEventIds"
       /\ handled[i].before.processedEventIds # {}
  /\ consumer.processedEventIds # {}

\* C22: the flag is set before any disconnect and before any exit, and
\* never cleared; the process exits with 0 only after its one disconnect
\* has resolved; a signal that finds the flag set exits with 1 in that very
\* step, whether or not the disconnect is still pending; and no second
\* disconnect is ever started, by stop() or otherwise.
C22_Shutdown ==
  /\ [](/\ consumer.disconnects <= 1
        /\ consumer.disconnects > 0 \/ consumer.exit # "running" => consumer.isShuttingDown
        /\ consumer.isShuttingDown => consumer.disconnects = 1
        /\ consumer.exit = "exit(0)" => consumer.disconnecting = 0)
  /\ [][/\ consumer.isShuttingDown => consumer'.isShuttingDown
        /\ consumer'.signals > consumer.signals /\ consumer.isShuttingDown =>
             consumer'.exit = "exit(1)" /\ consumer'.disconnecting = consumer.disconnecting
        /\ consumer'.signals > consumer.signals /\ ~consumer.isShuttingDown =>
             consumer'.exit = "running" /\ consumer'.disconnecting = 1]_vars

\* a second signal ended the process while the disconnect was pending
C22_Witness ==
  /\ consumer.signals = 2 /\ consumer.exit = "exit(1)"
  /\ consumer.disconnecting = 1 /\ consumer.disconnects = 1

\* the rules of the router of the latest route whose condition returns true
\* of the message routed
Matching == {i \in 1..Len(lastRoute.router.rules) :
               Condition(lastRoute.router.rules[i], lastRoute.message) = "true"}

\* C23: route returns the rule that comes first among those whose
\* condition returns true, a rule that none of them exceeds in priority
\* however the rules were added, with its target topic and defaultRoute
\* false; and when no condition returns true, the default topic with
\* defaultRoute true and no matched rule.
C23_FirstByPriority ==
  lastRoute # NoRoute =>
    IF Matching = {}
    THEN lastRoute.result = RoutingResult(lastRoute.router.defaultTopic, <<>>, TRUE)
    ELSE \E i \in Matching :
           /\ lastRoute.result = RoutingResult(lastRoute.router.rules[i].targetTopic,
                                            <<lastRoute.router.rules[i]>>, FALSE)
           /\ \A j \in Matching : i <= j
           /\ \A j \in Matching : lastRoute.router.rules[j].priority
                                    <= lastRoute.router.rules[i].priority

\* two rules match, the one of higher priority was added last, and it won
C23_Witness ==
  /\ lastRoute # NoRoute /\ Cardinality(Matching) = 2
  /\ rulesAdded = <<"audit-rule", "vip-rule">>
  /\ lastRoute.router = messageRouter
  /\ lastRoute.result.topic = "vip-topic"

\* C24: route does not throw; a rule whose condition throws counts as one
\* that does not match, so a rule after it whose condition returns true is
\* matched, and the default topic is returned with defaultRoute true when
\* every condition throws.
C24_ThrowingRuleIsPassedOver ==
  lastRoute # NoRoute =>
    LET rules == lastRoute.router.rules
        throwing == {i \in 1..Len(rules) :
                       Condition(rules[i], lastRoute.message) = "throws"}
    IN /\ ~lastRoute.result.threw
       /\ \A i \in throwing : \A j \in Matching :
            i < j /\ (\A j0 \in Matching : j <= j0) =>
              lastRoute.result.matchedRule = <<rules[j]>>
                /\ lastRoute.result.topic = rules[j].targetTopic
       /\ throwing = 1..Len(rules) =>
            /\ lastRoute.result.defaultRoute
            /\ lastRoute.result.topic = lastRoute.router.defaultTopic

\* the rule of highest priority threw and the one after it matched
C24_Witness ==
  /\ lastRoute # NoRoute /\ Len(lastRoute.router.rules) = 2
  /\ Condition(lastRoute.router.rules[1], lastRoute.message) = "throws"
  /\ lastRoute.result.matchedRule = <<lastRoute.router.rules[2]>>

\* the place of a rule's id among the ids in the order added
AddedAt(id) == CHOOSE i \in 1..Len(rulesAdded) : rulesAdded[i] = id

\* C25: the rules are in order of descending priority, and rules of equal
\* priority in the order in which they were added.
C25_SortedAndStable ==
  \A i, j \in 1..Len(messageRouter.rules) :
    i < j =>
      \/ messageRouter.rules[i].priority > messageRouter.rules[j].priority
      \/ /\ messageRouter.rules[i].priority = messageRouter.rules[j].priority
         /\ AddedAt(messageRouter.rules[i].id) < AddedAt(messageRouter.rules[j].id)

\* the calls of partition among the first i calls since the last reset
RECURSIVE SinceReset(_)
SinceReset(i) ==
  IF i = 0 \/ picked[i].op = "reset" THEN 0 ELSE 1 + SinceReset(i - 1)

\* C26: with a fixed partitionCount n, the k-th call of partition on a
\* fresh RoundRobinPartitioner or after a reset returns (k - 1) mod n.
C26_RoundRobinCycles ==
  partitioner.kind = "RoundRobinPartitioner" =>
    \A i \in 1..Len(picked) :
      picked[i].op = "partition" =>
        picked[i].partition = SinceReset(i - 1) % partitionerContext.partitionCount

\* the sequence wrapped around, was reset in mid-cycle and started again
C26_Witness ==
  /\ partitioner.kind = "RoundRobinPartitioner" /\ partitionerContext.partitionCount = 3
  /\ Len(picked) = 5
  /\ picked[2].partition = 1 /\ picked[3].op = "reset"
  /\ picked[4].partition = 0 /\ picked[5].partition = 1

\* h := h*31 + charCode, wrapped to 32 bits after each character
RECURSIVE PolynomialHash(_, _)
PolynomialHash(h, key) ==
  IF key = <<>> THEN h
  ELSE LET low == 31 * h.lo + Head(key)
       IN PolynomialHash(Word((31 * h.hi + low \div 65536) % 65536, low % 65536), Tail(key))

\* abs(h) mod n of the signed 32-bit integer h: a negative h is u - 2^32
\* for its unsigned word u, so abs(h) = 2^32 - u
AbsMod(h, n) ==
  LET u == ((h.hi % n) * (65536 % n) + (h.lo % n)) % n
  IN IF h.hi >= 32768 THEN ((65536 % n) * (65536 % n) + n - u) % n ELSE u

\* C27: for a non-empty key and partitionCount >= 1, HashPartitioner.partition
\* returns abs(h) mod partitionCount for the 32-bit polynomial hash h of the
\* key, the same on every call and within [0, partitionCount).
C27_HashIsPolynomial ==
  (partitioner.kind = "HashPartitioner" /\ partitionerContext.key # <<>>) =>
    \A i \in 1..Len(picked) :
      /\ picked[i].partition =
           AbsMod(PolynomialHash(Word(0, 0), partitionerContext.key),
                  partitionerContext.partitionCount)
      /\ picked[i].partition \in 0..(partitionerContext.partitionCount - 1)
      /\ picked[i].partition = picked[1].partition

\* a key whose hash overflowed into the negative numbers was partitioned
\* twice, into a partition other than 0
C27_Witness ==
  /\ partitioner.kind = "HashPartitioner"
  /\ Len(partitionerContext.key) = MaxKeyLen
  /\ IsNegative(simpleHash(partitionerContext.key))
  /\ Len(picked) >= 2 /\ picked[2].partition > 0

\* the smaller of two numbers
Min(a, b) == IF a <= b THEN a ELSE b

\* C28: a WeightedPartitioner cannot be constructed from an empty list of
\* weights, and one constructed from positive weights returns, for every
\* random draw, an index in [0, min(weights.length, partitionCount) - 1].
C28_WeightedWithinBuckets ==
  partitioner.kind = "WeightedPartitioner" =>
    /\ partitioner.weights = <<>> => (partitioner.error # "" /\ picked = <<>>)
    /\ \A i \in 1..Len(picked) :
         picked[i].partition \in
           0..(Min(Len(partitioner.weights), picked[i].context.partitionCount) - 1)

\* three weights and two partitions: a draw that falls into the second
\* bucket returns it
C28_Witness ==
  /\ partitioner.kind = "WeightedPartitioner" /\ Len(partitioner.weights) = 3
  /\ Len(picked) = 1 /\ picked[1].context.partitionCount = 2
  /\ picked[1].random > 2 * partitioner.cumulativeWeights[1]
  /\ picked[1].partition = 1

\* C29: for a valid EnhancedMetadata m, headersToMetadata(metadataToHeaders(m))
\* has the messageId, correlationId, messageType, priority, ttl and timestamp
\* of m.
C29_RoundTrip ==
  (decoded # NoMetadata /\ validateMetadata(messageMetadata)) =>
    \A key \in MetadataKeys : Get(decoded, key) = Get(messageMetadata, key)

\* C30: when the commit inside executeTransaction fails, the broker's abort
\* is invoked before executeTransaction rejects with a failure result that
\* carries the error of the commit.
C30_CommitFailureRollsBack ==
  \A t \in Tasks :
    result[t].op = "execute" /\ result[t].caught = "commit" =>
      /\ Len(Only(trace[t], "abort")) >= 1
      /\ result[t].out.status = "rejected"
      /\ result[t].out.thrown = "TransactionResult"
      /\ result[t].out.success = FALSE
      /\ result[t].out.error = result[t].error

\* C31: commitTransaction and rollbackTransaction act on the transaction
\* handle that beginTransaction obtained: a commit or a rollback of an active
\* transaction requests no handle of its own, so that a begin followed by the
\* commit inside executeTransaction requests exactly one.
C31_OneHandle ==
  \A t \in Tasks :
    /\ (result[t].op \in {"commit", "rollback"} /\ Truthy(result[t].before)) =>
         Only(trace[t], "transaction") = <<>>
    /\ (result[t].op = "execute" /\ result[t].out.status = "resolved") =>
         Len(Only(trace[t], "transaction")) = 1

\* C32: a sendBatch waits its linger delay only between consecutive chunk
\* sends: whenever it waits a chunk is left to send, so a batch of c chunks
\* waits at most c - 1 times, a batch of one chunk never, and the call
\* resolves on the acknowledgement of its last send.
C32_LingerBetweenChunks ==
  \A f \in {call, sent} :
    f.op = "sendBatch" =>
      /\ f.pc = "await linger" => f.chunks # <<>>
      /\ f.chunkCount <= 1 => f.waited = <<>>
      /\ f.chunkCount > 1 => Len(f.waited) <= f.chunkCount - 1

\* C33: a sendMessage or sendBatch that awaits the lookup of the partition
\* count goes on to its broker send, or settles, even if the lookup never
\* completes.
C33_LookupDoesNotBlock ==
  (call.pc = "await lookup") ~> (call.pc # "await lookup")

\* C34: isShuttingDown is consulted only when a message is delivered: a
\* message is ignored exactly when the flag was set as its handling began,
\* and a message whose business handler was called is classified and counted
\* by the handler's result (on SUCCESS its id is remembered), whether or not
\* the flag was set in between.
C34_FlagOnlyAtStart ==
  \A i \in 1..Len(handled) :
    LET f == handled[i]
    IN f.op = "handleMessage" =>
         /\ f.classification = "IGNORED" <=> f.before.isShuttingDown
         /\ f.invoked =>
              /\ f.classification \in ProcessingResults
              /\ f.classification = "SUCCESS" =>
                   /\ f.message.raw.parsed.fields.id \in f.after.processedEventIds
                   /\ Increments(f).processedMessages = 1
              /\ f.classification = "ERROR" => Increments(f).errorMessages > 0

\* the flag was set while the handler of a message was suspended, and the
\* message was classified SUCCESS and its id remembered all the same
C34_Witness ==
  \E i \in 1..Len(handled) :
    /\ handled[i].op = "handleMessage" /\ handled[i].invoked
    /\ ~handled[i].before.isShuttingDown /\ handled[i].after.isShuttingDown
    /\ handled[i].classification = "SUCCESS"
    /\ handled[i].message.raw.parsed.fields.id \in consumer.processedEventIds

\* a Record<string, string> as the set of its entries
AsMap(value) == {value.entries[i] : i \in 1..Len(value.entries)}

\* C35: for a metadata m that carries a customHeaders map, the empty map
\* included, headersToMetadata(metadataToHeaders(m)).customHeaders is a map
\* equal to it, and a header with neither prefix adds nothing to the result.
C35_CustomHeadersRoundTrip ==
  decoded # NoMetadata =>
    /\ Get(messageMetadata, "customHeaders") # Undefined =>
         /\ Get(decoded, "customHeaders").type = "object"
         /\ AsMap(Get(decoded, "customHeaders")) = AsMap(Get(messageMetadata, "customHeaders"))
    /\ \A key \in decoded.defined :
         key = "customHeaders" \/ HeaderName("x-msg-", key) \in kafkaHeaders.defined

\* C36: no two rules of a router share an id, whatever addRule, updateRule
\* and removeRule calls were made.
C36_UniqueIds ==
  \A i, j \in 1..Len(messageRouter.rules) :
    messageRouter.rules[i].id = messageRouter.rules[j].id => i = j

\* C37: an executeTransaction called while a transaction is active rejects
\* and leaves that transaction alone: no abort is issued to the broker and
\* the same id is active when the call has settled.
C37_ActiveTransactionUndisturbed ==
  \A t \in Tasks :
    (result[t].op = "execute" /\ Truthy(result[t].before)) =>
      /\ result[t].out.status = "rejected"
      /\ Only(trace[t], "abort") = <<>>
      /\ result[t].out.after = result[t].before

\* C38: every sendBatch settles in the end, under every max batch size the
\* constructor and updateConfiguration accept, when the broker answers every
\* call.
C38_SendBatchSettles ==
  (call.op = "sendBatch") ~> (call = NoCall)

\* C39: sendBatch looks up the partition count of config.kafkaTopic and
\* sends every chunk to config.kafkaTopic, with or without a router and
\* whatever rules the router holds; a sendMessage of the same producer goes
\* where the router says.
C39_BatchIgnoresRouting ==
  /\ \A f \in {call, sent} :
       f.op = "sendBatch" => \A i \in 1..Len(net) : net[i].topic = KafkaTopic
  /\ \A f \in {call, sent} :
       f.op = "sendMessage" =>
         \A i \in 1..Len(net) : net[i].topic = TargetTopic([router |-> f.router], f.items[1].kind)

\* a sendBatch of an object payload that a rule of the router matches, by a
\* producer with a partitioner, has resolved after a lookup and a send for
\* config.kafkaTopic
C39_Witness ==
  /\ sent.op = "sendBatch" /\ sent.status = "resolved" /\ sent.partitioned
  /\ sent.router.enabled
  /\ \E i \in 1..Len(sent.items) :
       /\ sent.items[i].kind = "object"
       /\ TargetTopic([router |-> sent.router], "object") = "premium-topic"
  /\ Len(Only(net, "send")) > 0 /\ Len(Only(net, "lookup")) = 1
  /\ \A i \in 1..Len(net) : net[i].topic = KafkaTopic

\* the handlings that processOrderEvent completed successfully
Succeeded == {i \in Handlings : handled[i].invoked /\ handled[i].classification = "SUCCESS"}

\* C40: as long as clearProcessedEventIds has not been called, with one
\* handleMessage at a time, no two handlings of events with the same id were
\* classified SUCCESS, processedEventIds holds the ids of the handlings
\* classified SUCCESS and no other, and processedMessages is the number of
\* ids in processedEventIds, which is what getMetrics reports.
C40_ProcessedOncePerId ==
  (\A k \in 1..Len(handled) : handled[k].op # "clearProcessedEventIds") =>
    /\ \A i, j \in Succeeded : handled[i].message.id = handled[j].message.id => i = j
    /\ consumer.processedEventIds = {handled[i].message.raw.parsed.fields.id : i \in Succeeded}
    /\ consumer.metrics.processedMessages = Cardinality(consumer.processedEventIds)
    /\ getMetrics(consumer).processedMessages = getMetrics(consumer).processedEventIdsCount

\* with no clear, two events succeeded and the first was skipped when it
\* was delivered again
C40_Witness ==
  /\ \A k \in 1..Len(handled) : handled[k].op = "handleMessage"
  /\ \E i, l \in HandlingsOf("X") : \E m \in HandlingsOf("Y") :
       /\ i < m /\ m < l
       /\ handled[i].classification = "SUCCESS"
       /\ handled[m].classification = "SUCCESS"
       /\ handled[l].classification = "SKIP"
  /\ consumer.metrics.processedMessages = 2
  /\ Cardinality(consumer.processedEventIds) = 2

====
